---- MODULE Spec2Model ----
(***************************************************************************)
(* cc-foundry: the reconciliation engine (pkg/installer, pkg/state,        *)
(* pkg/embed) and the diagnostics engine (pkg/doctor) as a state machine.  *)
(*                                                                         *)
(* Strings that the code assembles are sequences of tokens: the tokens of  *)
(* a name are joined by "-" and the token ".md" is the extension, so that  *)
(* "ccf-oss-development-oss-auditor.md" is <<"ccf","oss","development",    *)
(* "oss","auditor",".md">>.  A path is a sequence of such segments.        *)
(* File contents are naturals: 0 is content written by the user, r >= 1 is *)
(* content bundled with release r of the catalog.                          *)
(***************************************************************************)
EXTENDS Integers, Sequences, FiniteSets, TLC

VARIABLES
    files,      \* the file system: path -> content, NoFile when absent
    dirs,       \* the file system: the directories that exist
    doc,        \* the State document ~/.cc-foundry.json
    release,    \* the release of the catalog bundled with the binary
    mode,       \* installer.CurrentInstallMode
    st,         \* the in-memory *state.State of the running operation
    pc,         \* position of the running operation
    queue,      \* entries of the running batch not processed yet
    catQueue,   \* InstallAll: categories not processed yet
    plan,       \* the last plan built by PreviewInstall
    report,     \* the last HealthReport of doctor.Run
    fixQueue,   \* OfferFixes: fixable issues not repaired yet
    clock,      \* time.Now(), one tick per operation started
    env,        \* number of external events so far
    run,        \* log of the running operation (not program state)
    before      \* lifecycle status of every path when it started (same)

vars == <<files, dirs, doc, release, mode, st, pc, queue, catQueue,
          plan, report, fixQueue, clock, env, run, before>>

(***************************************************************************)
(* Bounds of the model.                                                    *)
(***************************************************************************)
MaxOps     == 2     \* operations started in one behaviour
MaxEnv     == 1     \* external events (edits, I/O errors, kills) in one behaviour
MaxRelease == 2     \* catalog releases

NoFile  == -1
UserContent == 0

\* ~/.claude.json: bytes that are not JSON, and a JSON document of more
\* than 50 MB.  Any other content of it is a small JSON document.
InvalidJson == -2
LargeJson   == -3

Modes == {"user", "project"}
TypeOrder == <<"commands", "agents", "skills">>
Types == {TypeOrder[i] : i \in 1..Len(TypeOrder)}

(***************************************************************************)
(* Sequence helpers.                                                       *)
(***************************************************************************)
Range(s) == {s[i] : i \in 1..Len(s)}

IsPrefix(p, s) == Len(p) <= Len(s) /\ SubSeq(s, 1, Len(p)) = p

\* strings.HasPrefix on two paths written as strings: the prefix may end in
\* the middle of a segment of s.
HasPrefix(s, prefix) ==
    \/ prefix = << >>
    \/ /\ Len(prefix) <= Len(s)
       /\ SubSeq(s, 1, Len(prefix) - 1) = SubSeq(prefix, 1, Len(prefix) - 1)
       /\ IsPrefix(prefix[Len(prefix)], s[Len(prefix)])

TrimSuffix(s, suffix) ==
    IF Len(s) > 0 /\ s[Len(s)] = suffix THEN SubSeq(s, 1, Len(s) - 1) ELSE s

Dir(path) == SubSeq(path, 1, Len(path) - 1)

Base(path) == path[Len(path)]

(***************************************************************************)
(* pkg/embed: the catalog.  CatalogFS lists the bundled files in the order *)
(* fs.ReadDir yields them (categories by name, files by name inside a      *)
(* type directory); it holds the files of src/embeddata/categories but     *)
(* oss-development/skills/github-cicd-skill.md.                            *)
(***************************************************************************)
Development    == <<"development">>
OssDevelopment == <<"oss", "development">>
AllCategories  == << >>      \* the category argument "" of the code
AnyType        == ""         \* the fileType argument "" of the code

CatalogFS ==
    << [Category |-> Development,    Type |-> "skills",
        Filename |-> <<"makefile", "skills", "guide", ".md">>],
       [Category |-> OssDevelopment, Type |-> "agents",
        Filename |-> <<"oss", "auditor", ".md">>],
       [Category |-> OssDevelopment, Type |-> "skills",
        Filename |-> <<"github", "badges", "skill", ".md">>] >>

\* Content bundled for an entry by a release: skills change with every
\* release, the other entries never change.
ContentOf(entry, rel) == IF entry.Type = "skills" THEN rel ELSE 1

CategoryFile(entry, rel) ==
    [Category |-> entry.Category, Type |-> entry.Type,
     Filename |-> entry.Filename, Content |-> ContentOf(entry, rel)]

ListCategories == <<Development, OssDevelopment>>

TypeFiles(category, fileType, rel) ==
    LET sel == SelectSeq(CatalogFS,
                 LAMBDA e : e.Category = category /\ e.Type = fileType)
    IN  [i \in 1..Len(sel) |-> CategoryFile(sel[i], rel)]

TypeDirExists(category, fileType) ==
    \E i \in 1..Len(CatalogFS) :
        CatalogFS[i].Category = category /\ CatalogFS[i].Type = fileType

\* ListCategoryFiles that lists the whole catalog for an unknown category.
ListCategoryFilesFallsBack(category, rel) ==
    [i \in 1..Len(CatalogFS) |-> CategoryFile(CatalogFS[i], rel)]

\* ListCategoryFiles: the three type directories in order; a directory that
\* does not exist is skipped.
ListCategoryFiles(category, rel) ==
    TypeFiles(category, "commands", rel) \o TypeFiles(category, "agents", rel)
        \o TypeFiles(category, "skills", rel)

RECURSIVE ConcatCategories(_, _)
ConcatCategories(cats, rel) ==
    IF cats = << >> THEN << >>
    ELSE ListCategoryFiles(Head(cats), rel) \o ConcatCategories(Tail(cats), rel)

ListAllFiles(rel) == ConcatCategories(ListCategories, rel)

\* ListTypeFiles fails when the type directory does not exist.
ListTypeFilesFails(category, fileType) == ~TypeDirExists(category, fileType)

ListTypeFiles(category, fileType, rel) == TypeFiles(category, fileType, rel)

(***************************************************************************)
(* pkg/state.                                                              *)
(***************************************************************************)
Version == "1.0.0"

calculateHash(content) == <<"sha256", content>>

EmptyState == << >>

Load(d) == IF d.exists THEN d.installations ELSE EmptyState

\* Load that returns the empty State for a document it cannot decode.
LoadSubstitutesDefault(d) == FALSE

\* Load, lines 47-57: os.ReadFile or json.Unmarshal returns an error for a
\* document that exists and does not decode; Load returns no State then.
LoadFails(d) == d.exists /\ ~d.decodes

\* Save that writes a document without records.
SaveNoRecords(insts) ==
    [exists |-> TRUE, decodes |-> TRUE, version |-> Version,
     installations |-> << >>]

Save(insts) ==
    [exists |-> TRUE, decodes |-> TRUE, version |-> Version,
     installations |-> insts]

\* A State document whose bytes are not the JSON of a State.
CorruptDocument ==
    [exists |-> TRUE, decodes |-> FALSE, version |-> "", installations |-> << >>]

AddInstallation(insts, category, fileType, filename, installedPath, content, now) ==
    Append(insts, [Category      |-> category,
                   Type          |-> fileType,
                   File          |-> filename,
                   InstalledPath |-> installedPath,
                   Hash          |-> calculateHash(content),
                   InstalledAt   |-> now])

StateRemoveInstallation(insts, installedPath) ==
    SelectSeq(insts, LAMBDA inst : inst.InstalledPath # installedPath)

\* FindInstallation returns the first record at the path; 0 stands for nil.
FindIndex(insts, installedPath) ==
    IF \E i \in 1..Len(insts) : insts[i].InstalledPath = installedPath
    THEN CHOOSE i \in 1..Len(insts) :
            /\ insts[i].InstalledPath = installedPath
            /\ \A j \in 1..(i - 1) : insts[j].InstalledPath # installedPath
    ELSE 0

\* HasContentChanged without the comparison.
HasContentChangedAlways(inst, newContent) == TRUE

HasContentChanged(inst, newContent) == calculateHash(newContent) # inst.Hash

ListInstallations(insts, category, fileType) ==
    SelectSeq(insts, LAMBDA inst :
        /\ (category # AllCategories => inst.Category = category)
        /\ (fileType # AnyType => inst.Type = fileType))

(***************************************************************************)
(* pkg/installer: placement.                                               *)
(***************************************************************************)
Home == << <<"home">> >>
Cwd  == << <<"home">>, <<"proj">> >>

GetClaudeCodeDir(m) ==
    IF m = "project" THEN Cwd \o << <<".claude">> >>
    ELSE Home \o << <<".claude">> >>

GetTypeDir(m, fileType) == GetClaudeCodeDir(m) \o << <<fileType>> >>

GenerateInstalledFilename(category, filename) ==
    <<"ccf">> \o category \o TrimSuffix(filename, ".md") \o <<".md">>

SkillFile == <<"SKILL", ".md">>

\* InstallFile that places every type as a flat file.
InstalledPathFlat(file, m) ==
    GetTypeDir(m, file.Type)
        \o <<GenerateInstalledFilename(file.Category, file.Filename)>>

\* InstallFile, lines 382-401.
InstalledPath(file, m) ==
    IF file.Type = "skills"
    THEN LET skillName == TrimSuffix(
                 GenerateInstalledFilename(file.Category, file.Filename), ".md")
             skillDir  == GetTypeDir(m, file.Type) \o <<skillName>>
         IN  skillDir \o <<SkillFile>>
    ELSE GetTypeDir(m, file.Type)
            \o <<GenerateInstalledFilename(file.Category, file.Filename)>>

\* PreviewInstall, lines 1151-1162.
PreviewPath(file, m) ==
    IF file.Type = "skills"
    THEN GetTypeDir(m, file.Type)
            \o <<TrimSuffix(GenerateInstalledFilename(file.Category, file.Filename),
                            ".md")>>
            \o <<SkillFile>>
    ELSE GetTypeDir(m, file.Type)
            \o <<GenerateInstalledFilename(file.Category, file.Filename)>>

(***************************************************************************)
(* The file system.                                                        *)
(***************************************************************************)
CatalogEntries == Range(CatalogFS)

\* A ccf- file in the user-level commands directory that no release of the
\* catalog contains (a left-over of an older version).
OldCommand == GetTypeDir("user", "commands") \o << <<"ccf", "old", ".md">> >>

AllPaths ==
    {InstalledPath(e, m) : e \in CatalogEntries, m \in Modes} \cup {OldCommand}

\* ~/.claude.json, the configuration of Claude Code that doctor inspects.
ClaudeConfigPath == Home \o << <<".claude", ".json">> >>

\* A file of the user's own in the directory of an installed skill.
SkillNote ==
    Dir(InstalledPath(CatalogFS[1], "user")) \o << <<"notes", ".md">> >>

\* The files of the model: the installed paths, ~/.claude.json and the
\* user's file in a skill directory.
FilePaths == AllPaths \cup {ClaudeConfigPath, SkillNote}

\* No path: the nil argument.
NoPath == << >>

Ancestors(dir) == {SubSeq(dir, 1, k) : k \in 1..Len(dir)}

MkdirAll(ds, dir) == ds \cup Ancestors(dir)

\* EnsureDirectoriesExist: MkdirAll of the three type directories.
EnsureDirectoriesExist(ds, m) ==
    ds \cup UNION {Ancestors(GetTypeDir(m, t)) : t \in Types}

\* os.WriteFile
WriteFile(fs, path, content) == [fs EXCEPT ![path] = content]

\* os.Remove of a file; a file that is not there is os.IsNotExist.
Remove(fs, path) == [fs EXCEPT ![path] = NoFile]

\* os.RemoveAll of a directory: the directory and everything below it.
RemoveAllFiles(fs, dir) ==
    [p \in DOMAIN fs |-> IF IsPrefix(dir, p) THEN NoFile ELSE fs[p]]

RemoveAllDirs(ds, dir) == {d \in ds : ~IsPrefix(dir, d)}

Exists(fs, path) == fs[path] # NoFile

(***************************************************************************)
(* The log of the running operation (not program state): what it was       *)
(* asked to do and what it has done so far.  It is read by the properties  *)
(* only, and dropped when the operation has returned (Return).             *)
(***************************************************************************)
NoSnapshot == [files |-> << >>, dirs |-> {}, doc |-> CorruptDocument]

NoRun ==
    [kind     |-> "none",   \* the entry point called
     cat      |-> AllCategories,
     typ      |-> AnyType,
     rel      |-> 0,
     repeat   |-> FALSE,    \* the same call was made just before and succeeded
     prior    |-> 0,        \* the entries of that call's batch
     outcome  |-> "ok",     \* "running", "ok", "error", "loadError", "killed"
     n        |-> 0,        \* entries of the batch(es)
     installs |-> 0,        \* entries InstallFile installed
     updates  |-> 0,        \* entries InstallFile updated
     skips    |-> 0,        \* entries InstallFile left alone
     written  |-> {},       \* <<path, content>> of every os.WriteFile
     mkdirs   |-> {},       \* directories created
     deleted  |-> {},       \* paths os.Remove / os.RemoveAll was called on, no error
     failed   |-> {},       \* paths whose write or delete failed
     dereg    |-> {},       \* paths deregistered from the in-memory State
     tried    |-> 0,        \* entries attempted
     saves    |-> 0,        \* State.Save calls
     fixed    |-> 0,        \* OfferFixes: repairs that returned no error
     fixFails |-> 0,        \* OfferFixes: repairs that returned an error
     start    |-> NoSnapshot]  \* files, directories, document when it was called

StartRun(from, kind, cat, typ, rel) ==
    [NoRun EXCEPT !.kind = kind, !.cat = cat, !.typ = typ, !.rel = rel,
                  !.repeat = (from = "done"),
                  !.prior = IF from = "done" THEN run.n ELSE 0,
                  !.outcome = "running",
                  !.start = [files |-> files, dirs |-> dirs, doc |-> doc]]

\* The lifecycle status of the record at a path, as the State document and
\* the file system show it.
Tracked(insts, path) == \E i \in 1..Len(insts) : insts[i].InstalledPath = path

Status(insts, fs, path) ==
    IF ~Tracked(insts, path) THEN "untracked"
    ELSE IF Exists(fs, path) THEN "installed" ELSE "missing"

StatusMap == [p \in AllPaths |-> Status(Load(doc), files, p)]

NoStatus == [p \in AllPaths |-> "untracked"]

NoPlan == [category |-> AllCategories, fileType |-> AnyType, rel |-> 0,
           changes |-> << >>, removals |-> << >>,
           installCount |-> 0, updateCount |-> 0, skipCount |-> 0]

NoReport ==
    [Issues |-> << >>, Errors |-> 0, Warnings |-> 0, FilesChecked |-> 0,
     MissingFiles |-> 0, ModifiedFiles |-> 0, OrphanedFiles |-> 0]

(***************************************************************************)
(* Initial states: a machine on which foundry never ran.  The State        *)
(* document is absent or holds no installation.                            *)
(***************************************************************************)
Init ==
    /\ files = [p \in FilePaths |->
                    IF p = ClaudeConfigPath THEN UserContent ELSE NoFile]
    /\ dirs = Ancestors(Home) \cup Ancestors(Cwd)
    /\ doc \in {[exists |-> FALSE, decodes |-> TRUE, version |-> Version,
                 installations |-> << >>],
                Save(EmptyState)}
    /\ release = 1
    /\ mode = "user"
    /\ st = EmptyState
    /\ pc = "idle"
    /\ queue = << >>
    /\ catQueue = << >>
    /\ plan = NoPlan
    /\ report = NoReport
    /\ fixQueue = << >>
    /\ clock = 0
    /\ env = 0
    /\ run = NoRun
    /\ before = NoStatus

\* An operation is called from the main menu ("idle"), from the confirmed
\* preview ("preview", "previewRemove"), or again right after it returned
\* ("done").  A run called from a preview keeps the plan the user confirmed.
CanStart(from) ==
    /\ pc = from
    /\ IF from = "done"
       THEN run.outcome = "ok" /\ ~run.repeat
       ELSE clock < MaxOps

\* The operation has returned to its caller; a returned error saved nothing.
Returned ==
    /\ pc' = "done"
    /\ st' = EmptyState
    /\ queue' = << >>
    /\ catQueue' = << >>

\* Back at the main menu.  The next operation sets the install mode before
\* it reads it (PromptForLocation, PromptForLocationForRemoval).
Return ==
    /\ pc = "done"
    /\ pc' = "idle"
    /\ mode' = "user"
    /\ run' = NoRun
    /\ before' = NoStatus
    /\ report' = NoReport
    /\ plan' = NoPlan
    /\ UNCHANGED <<files, dirs, doc, release, st, queue, catQueue,
                   fixQueue, clock, env>>

\* An I/O error or a kill: an event of the environment.
EnvEvent == env < MaxEnv /\ env' = env + 1

(***************************************************************************)
(* Install.                                                                *)
(***************************************************************************)
\* InstallCategory, lines 446-478: list the files, load the State.
InstallCategoryCalled(from, category, m) ==
    LET fs == IF category = AllCategories THEN ListAllFiles(release)
              ELSE ListCategoryFiles(category, release)
        log == StartRun(from, "InstallCategory", category, AnyType, release)
    IN  /\ CanStart(from)
        /\ clock' = clock + 1
        /\ mode' = m
        /\ before' = StatusMap
        /\ plan' = IF from = "preview" THEN plan ELSE NoPlan
        /\ IF Len(fs) = 0
           THEN /\ run' = [log EXCEPT !.outcome = "error"]
                /\ Returned
           ELSE IF LoadFails(doc)
           THEN /\ run' = [log EXCEPT !.outcome = "loadError"]
                /\ Returned
           ELSE /\ st' = Load(doc)
                /\ queue' = fs
                /\ pc' = "install"
                /\ run' = [log EXCEPT !.n = Len(fs)]
                /\ UNCHANGED catQueue
        /\ UNCHANGED <<files, dirs, doc, release, report, fixQueue, env>>

\* InstallType, lines 499-517.
InstallTypeCalled(from, category, fileType, m) ==
    LET log == StartRun(from, "InstallType", category, fileType, release)
    IN  /\ CanStart(from)
        /\ clock' = clock + 1
        /\ mode' = m
        /\ before' = StatusMap
        /\ plan' = IF from = "preview" THEN plan ELSE NoPlan
        /\ IF \/ ListTypeFilesFails(category, fileType)
              \/ Len(ListTypeFiles(category, fileType, release)) = 0
           THEN /\ run' = [log EXCEPT !.outcome = "error"]
                /\ Returned
           ELSE IF LoadFails(doc)
           THEN /\ run' = [log EXCEPT !.outcome = "loadError"]
                /\ Returned
           ELSE /\ st' = Load(doc)
                /\ queue' = ListTypeFiles(category, fileType, release)
                /\ pc' = "install"
                /\ run' = [log EXCEPT
                             !.n = Len(ListTypeFiles(category, fileType, release))]
                /\ UNCHANGED catQueue
        /\ UNCHANGED <<files, dirs, doc, release, report, fixQueue, env>>

\* InstallAll, lines 629-640: the categories are installed one after the
\* other, each by its own InstallCategory call.
InstallAllCalled(from, m) ==
    LET log == StartRun(from, "InstallAll", AllCategories, AnyType, release)
    IN  /\ CanStart(from)
        /\ clock' = clock + 1
        /\ mode' = m
        /\ before' = StatusMap
        /\ plan' = NoPlan
        /\ IF Len(ListCategories) = 0
           THEN /\ run' = [log EXCEPT !.outcome = "error"]
                /\ Returned
           ELSE /\ catQueue' = ListCategories
                /\ pc' = "installAll"
                /\ run' = log
                /\ UNCHANGED <<st, queue>>
        /\ UNCHANGED <<files, dirs, doc, release, report, fixQueue, env>>

\* InstallAll, lines 641-645: the next InstallCategory call.
InstallAllNextCategory ==
    /\ pc = "installAll"
    /\ catQueue # << >>
    /\ LET fs == ListCategoryFiles(Head(catQueue), release)
       IN  IF Len(fs) = 0
           THEN /\ run' = [run EXCEPT !.outcome = "error"]
                /\ Returned
           ELSE IF LoadFails(doc)
           THEN /\ run' = [run EXCEPT !.outcome = "loadError"]
                /\ Returned
           ELSE /\ st' = Load(doc)
                /\ queue' = fs
                /\ catQueue' = Tail(catQueue)
                /\ pc' = "install"
                /\ run' = [run EXCEPT !.n = @ + Len(fs)]
    /\ UNCHANGED <<files, dirs, doc, release, mode, plan, report, fixQueue,
                   clock, env, before>>

\* InstallFile without its unchanged-content check: a record found at the
\* path always makes an update.
InstallFileActionNeverSkips(insts, file, path) ==
    IF FindIndex(insts, path) = 0 THEN "install" ELSE "update"

\* InstallFile that also reads the file: bytes on disk that hash differently
\* from the record make an update.
InstallFileActionReadsDisk(insts, file, path) ==
    LET i == FindIndex(insts, path)
    IN  IF i = 0 THEN "install"
        ELSE IF /\ ~HasContentChanged(insts[i], file.Content)
                /\ calculateHash(files[path]) = insts[i].Hash
        THEN "skip"
        ELSE "update"

\* InstallFile, lines 412-425: what InstallFile does with an entry, given the
\* record found at its path.
InstallFileAction(insts, file, path) ==
    LET i == FindIndex(insts, path)
    IN  IF i = 0 THEN "install"
        ELSE IF ~HasContentChanged(insts[i], file.Content) THEN "skip"
        ELSE "update"

\* InstallFile without st.RemoveInstallation: the fresh record is appended and
\* the stale one stays.
InstallFileRecordKeepsStale(insts, file, path, now) ==
    AddInstallation(insts, file.Category, file.Type, file.Filename, path,
                    file.Content, now)

\* InstallFile without st.AddInstallation: the stale record is removed and no
\* fresh one is added.
InstallFileRecordOnlyRemoves(insts, file, path, now) ==
    StateRemoveInstallation(insts, path)

\* InstallFile that keeps the fresh record only.
InstallFileRecordDropsOthers(insts, file, path, now) ==
    AddInstallation(EmptyState,
                    file.Category, file.Type, file.Filename, path, file.Content, now)

\* InstallFile, lines 432-434: the stale record is removed, a fresh one added.
InstallFileRecord(insts, file, path, now) ==
    AddInstallation(StateRemoveInstallation(insts, path),
                    file.Category, file.Type, file.Filename, path, file.Content, now)

\* InstallFile writing something else than the content it records the hash of.
InstallFileWriteTransformed(fs, file, path) == WriteFile(fs, path, UserContent)

\* InstallFile, lines 427-430: the content is written verbatim.
InstallFileWrite(fs, file, path) == WriteFile(fs, path, file.Content)

\* The directories InstallFile makes sure exist before it looks at the State
\* (lines 371-396).
InstallFileDirs(ds, file, m) ==
    IF file.Type = "skills"
    THEN MkdirAll(EnsureDirectoriesExist(ds, m), Dir(InstalledPath(file, m)))
    ELSE EnsureDirectoriesExist(ds, m)

\* os.WriteFile that returns an error: the file is as it was (it could not
\* be opened), or it was truncated and holds a part of the content.
FailedWrite(fs, path, partial) ==
    IF partial THEN WriteFile(fs, path, UserContent) ELSE fs

\* InstallFile (lines 370-443) on the next entry of the batch, as the loop of
\* InstallCategory / InstallType (lines 480-484, 519-523) calls it.  writeOk
\* is the outcome of os.WriteFile, partial what a failed write left behind.
InstallFileStep(writeOk, partial) ==
    /\ pc = "install"
    /\ queue # << >>
    /\ writeOk => ~partial
    /\ LET file   == Head(queue)
           path   == InstalledPath(file, mode)
           action == InstallFileAction(st, file, path)
           ds     == InstallFileDirs(dirs, file, mode)
           log    == [run EXCEPT !.tried = @ + 1, !.mkdirs = @ \cup (ds \ dirs)]
       IN  /\ dirs' = ds
           /\ IF action = "skip"
              THEN /\ writeOk
                   /\ run' = [log EXCEPT !.skips = @ + 1]
                   /\ queue' = Tail(queue)
                   /\ UNCHANGED <<files, st, pc, catQueue, env>>
              ELSE IF writeOk
              THEN /\ files' = InstallFileWrite(files, file, path)
                   /\ st' = InstallFileRecord(st, file, path, clock)
                   /\ run' = [log EXCEPT
                                !.written = @ \cup {<<path, file.Content>>},
                                !.installs = IF action = "install" THEN @ + 1 ELSE @,
                                !.updates = IF action = "update" THEN @ + 1 ELSE @]
                   /\ queue' = Tail(queue)
                   /\ UNCHANGED <<pc, catQueue, env>>
              ELSE /\ EnvEvent
                   /\ files' = FailedWrite(files, path, partial)
                   /\ run' = [log EXCEPT !.failed = @ \cup {path},
                                         !.outcome = "error"]
                   /\ Returned
    /\ UNCHANGED <<doc, release, mode, plan, report, fixQueue, clock, before>>

\* The State saved inside the loop, after any entry.
InstallSaveInsideLoop ==
    /\ pc = "install"
    /\ doc' = Save(st)
    /\ IF queue # << >> \/ catQueue # << >>
       THEN /\ pc' = IF queue # << >> THEN "install" ELSE "installAll"
            /\ run' = [run EXCEPT !.saves = @ + 1]
            /\ UNCHANGED <<st, queue, catQueue>>
       ELSE /\ run' = [run EXCEPT !.saves = @ + 1, !.outcome = "ok"]
            /\ Returned
    /\ UNCHANGED <<files, dirs, release, mode, plan, report, fixQueue, clock,
                   env, before>>

\* InstallCategory / InstallType, lines 486-495, 525-530: the batch is over,
\* the State is saved.
InstallSave ==
    /\ pc = "install"
    /\ queue = << >>
    /\ doc' = Save(st)
    /\ IF catQueue # << >>
       THEN /\ pc' = "installAll"
            /\ run' = [run EXCEPT !.saves = @ + 1]
            /\ UNCHANGED <<st, queue, catQueue>>
       ELSE /\ run' = [run EXCEPT !.saves = @ + 1, !.outcome = "ok"]
            /\ Returned
    /\ UNCHANGED <<files, dirs, release, mode, plan, report, fixQueue, clock,
                   env, before>>

(***************************************************************************)
(* Remove.                                                                 *)
(***************************************************************************)
\* pathMatchesInstallMode, lines 548-568: strings.HasPrefix on the path.
pathMatchesInstallMode(installPath, m) ==
    IF m = "user" THEN HasPrefix(installPath, Home \o << <<".claude">> >>)
    ELSE HasPrefix(installPath, Cwd \o << <<".claude">> >>)

\* ListInstallationsForCurrentMode without the filter on the install mode.
ListInstallationsAnyMode(insts, category, fileType, m) ==
    ListInstallations(insts, category, fileType)

ListInstallationsForCurrentMode(insts, category, fileType, m) ==
    SelectSeq(ListInstallations(insts, category, fileType),
              LAMBDA inst : pathMatchesInstallMode(inst.InstalledPath, m))

\* RemoveInstallation (installer), lines 651-666: what is deleted for a record.
RemoveInstallationTarget(inst) ==
    IF inst.Type = "skills" THEN Dir(inst.InstalledPath) ELSE inst.InstalledPath

RemoveInstallationFiles(fs, inst) ==
    IF inst.Type = "skills" THEN RemoveAllFiles(fs, Dir(inst.InstalledPath))
    ELSE Remove(fs, inst.InstalledPath)

\* RemoveInstallation using os.Remove on the SKILL.md of a skill: the
\* directory stays.
RemoveInstallationDirsLeafOnly(ds, inst) == ds

RemoveInstallationDirs(ds, inst) ==
    IF inst.Type = "skills" THEN RemoveAllDirs(ds, Dir(inst.InstalledPath))
    ELSE ds

\* The earlier RemoveCategory (lines 209-212) returned an error when no record
\* matched.
NothingToRemoveIsAnError(kind) == "error"

\* Lines 689-692, 730-733, 768-771: with no matching record the operation
\* returns nil at once, without saving.
NothingToRemoveResult(kind) == "ok"

\* RemoveCategory / RemoveType / RemoveAll up to their loop (lines 682-701,
\* 723-738, 756-773): load the State, list the matching records.
RemoveCalled(from, kind, category, fileType, m) ==
    LET installations ==
            ListInstallationsForCurrentMode(Load(doc), category, fileType, m)
        log == StartRun(from, kind, category, fileType, release)
    IN  /\ CanStart(from)
        /\ clock' = clock + 1
        /\ mode' = m
        /\ before' = StatusMap
        /\ IF LoadFails(doc)
           THEN /\ run' = [log EXCEPT !.outcome = "loadError"]
                /\ Returned
           ELSE IF Len(installations) = 0
           THEN /\ run' = [log EXCEPT !.outcome = NothingToRemoveResult(kind)]
                /\ Returned
           ELSE /\ pc' = "remove"
                /\ st' = Load(doc)
                /\ queue' = installations
                /\ run' = [log EXCEPT !.n = Len(installations)]
                /\ UNCHANGED catQueue
        /\ plan' = IF from = "previewRemove" THEN plan ELSE NoPlan
        /\ UNCHANGED <<files, dirs, doc, release, report, fixQueue, env>>

\* Every loop returning the error of RemoveInstallation.
NeverContinuesAfterError(kind) == FALSE

\* What the loops do when RemoveInstallation returns an error: RemoveAll
\* logs it and goes on (lines 776-780), RemoveCategory and RemoveType return
\* it (lines 704-706, 741-743).
ContinuesAfterError(kind) == kind = "RemoveAll"

\* os.Remove / os.RemoveAll that returns an error: nothing was deleted, or
\* os.RemoveAll had deleted the files below the directory when it failed.
FailedDelete(fs, inst, partial) ==
    IF partial THEN RemoveAllFiles(fs, Dir(inst.InstalledPath)) ELSE fs

\* One iteration of the loop of RemoveCategory / RemoveType / RemoveAll
\* (lines 703-708, 740-745, 775-781).  deleteOk is the outcome of os.Remove /
\* os.RemoveAll, partial what a failed delete left behind; a file that is not
\* there is no error.
RemoveStep(deleteOk, partial) ==
    /\ pc = "remove"
    /\ queue # << >>
    /\ partial => (~deleteOk /\ Head(queue).Type = "skills")
    /\ LET inst == Head(queue)
           log  == [run EXCEPT !.tried = @ + 1]
       IN  IF deleteOk
           THEN /\ files' = RemoveInstallationFiles(files, inst)
                /\ dirs' = RemoveInstallationDirs(dirs, inst)
                /\ st' = StateRemoveInstallation(st, inst.InstalledPath)
                /\ queue' = Tail(queue)
                /\ run' = [log EXCEPT
                             !.deleted = @ \cup {RemoveInstallationTarget(inst)},
                             !.dereg = @ \cup {inst.InstalledPath}]
                /\ UNCHANGED <<pc, catQueue, env>>
           ELSE /\ EnvEvent
                /\ files' = FailedDelete(files, inst, partial)
                /\ UNCHANGED dirs
                /\ IF ContinuesAfterError(run.kind)
                   THEN /\ st' = StateRemoveInstallation(st, inst.InstalledPath)
                        /\ queue' = Tail(queue)
                        /\ run' = [log EXCEPT
                                     !.failed = @ \cup {RemoveInstallationTarget(inst)},
                                     !.dereg = @ \cup {inst.InstalledPath}]
                        /\ UNCHANGED <<pc, catQueue>>
                   ELSE /\ run' = [log EXCEPT
                                     !.failed = @ \cup {RemoveInstallationTarget(inst)},
                                     !.outcome = "error"]
                        /\ Returned
    /\ UNCHANGED <<doc, release, mode, plan, report, fixQueue, clock, before>>

\* Lines 710-719, 747-752, 783-788: the State is saved.
RemoveSave ==
    /\ pc = "remove"
    /\ queue = << >>
    /\ doc' = Save(st)
    /\ run' = [run EXCEPT !.saves = @ + 1, !.outcome = "ok"]
    /\ Returned
    /\ UNCHANGED <<files, dirs, release, mode, plan, report, fixQueue, clock,
                   env, before>>

(***************************************************************************)
(* The plan (PreviewInstall).                                              *)
(***************************************************************************)
\* The plan without its comparison of hashes: a record found at the path
\* always makes a skip.
PreviewActionIgnoresHash(insts, file, path) ==
    IF FindIndex(insts, path) = 0 THEN "install" ELSE "skip"

\* The plan that shows every file with a record as an update.
PreviewActionNeverSkips(insts, file, path) ==
    IF FindIndex(insts, path) = 0 THEN "install" ELSE "update"

\* Lines 1170-1182: the action the plan shows for an entry.
PreviewAction(insts, file, path) ==
    LET i == FindIndex(insts, path)
    IN  IF i = 0 THEN "install"
        ELSE IF HasContentChanged(insts[i], file.Content) THEN "update"
        ELSE "skip"

\* Lines 1112-1127: the files of the requested subset.
PreviewFiles(category, fileType, rel) ==
    IF category = AllCategories THEN ListAllFiles(rel)
    ELSE IF fileType # AnyType THEN ListTypeFiles(category, fileType, rel)
    ELSE ListCategoryFiles(category, rel)

PreviewFails(category, fileType, rel) ==
    \/ category # AllCategories /\ fileType # AnyType
          /\ ListTypeFilesFails(category, fileType)
    \/ Len(PreviewFiles(category, fileType, rel)) = 0

\* Lines 1204-1220: the loop that counts the changes of one action.
RECURSIVE CountAction(_, _)
CountAction(changes, action) ==
    IF changes = << >> THEN 0
    ELSE (IF Head(changes).Action = action THEN 1 ELSE 0)
            + CountAction(Tail(changes), action)

\* Lines 1145-1223: the changes and their counts.
BuildPlan(category, fileType, m, rel, insts) ==
    LET fs      == PreviewFiles(category, fileType, rel)
        changes == [i \in 1..Len(fs) |->
                      [Action |-> PreviewAction(insts, fs[i], PreviewPath(fs[i], m)),
                       Type   |-> fs[i].Type,
                       File   |-> fs[i],
                       Path   |-> PreviewPath(fs[i], m)]]
    IN  [category |-> category, fileType |-> fileType, rel |-> rel,
         changes |-> changes, removals |-> << >>,
         installCount |-> CountAction(changes, "install"),
         updateCount  |-> CountAction(changes, "update"),
         skipCount    |-> CountAction(changes, "skip")]

\* PreviewInstall that saves the State it loaded.
PreviewInstallSavesState(category, fileType, m) ==
    /\ pc = "idle"
    /\ clock < MaxOps
    /\ ~PreviewFails(category, fileType, release)
    /\ ~LoadFails(doc)
    /\ plan' = BuildPlan(category, fileType, m, release, Load(doc))
    /\ pc' = "preview"
    /\ mode' = m
    /\ doc' = Save(Load(doc))
    /\ UNCHANGED <<files, dirs, release, st, queue, catQueue, report,
                   fixQueue, clock, env, run, before>>

\* PreviewInstall up to its confirmation prompt (lines 1108-1232), after
\* PromptForLocation set the install mode.
PreviewInstall(category, fileType, m) ==
    /\ pc = "idle"
    /\ clock < MaxOps
    /\ IF PreviewFails(category, fileType, release) \/ LoadFails(doc)
       THEN UNCHANGED <<plan, pc, mode>>
       ELSE /\ plan' = BuildPlan(category, fileType, m, release, Load(doc))
            /\ pc' = "preview"
            /\ mode' = m
    /\ UNCHANGED <<files, dirs, doc, release, st, queue, catQueue, report,
                   fixQueue, clock, env, run, before>>

\* "Yes, proceed": the caller installs what was previewed
\* (cmd/cc-foundry/main.go, lines 152-168).
PreviewConfirmed ==
    /\ pc = "preview"
    /\ IF plan.fileType = AnyType
       THEN InstallCategoryCalled("preview", plan.category, mode)
       ELSE InstallTypeCalled("preview", plan.category, plan.fileType, mode)

\* "No, cancel" or Esc.
PreviewCancelled ==
    /\ pc = "preview"
    /\ pc' = "idle"
    /\ plan' = NoPlan
    /\ mode' = "user"
    /\ UNCHANGED <<files, dirs, doc, release, st, queue, catQueue,
                   report, fixQueue, clock, env, run, before>>

\* The preview of a removal showing the first matching record only.
PreviewRemoveListFirstOnly(insts, category, fileType, m) ==
    LET all == ListInstallationsForCurrentMode(insts, category, fileType, m)
    IN  IF all = << >> THEN << >> ELSE <<all[1]>>

\* PreviewRemove, line 1247: the records the preview lists.
PreviewRemoveList(insts, category, fileType, m) ==
    ListInstallationsForCurrentMode(insts, category, fileType, m)

\* PreviewRemove up to its confirmation prompt (lines 1241-1283), after
\* PromptForLocationForRemoval set the install mode.  A State that does not
\* load is an error; with no matching record there is no prompt and the
\* caller goes on to RemoveCategory (cmd/cc-foundry/main.go, lines 228-240).
PreviewRemove(category, m) ==
    LET removals == PreviewRemoveList(Load(doc), category, AnyType, m)
    IN  /\ pc = "idle"
        /\ clock < MaxOps
        /\ \/ /\ LoadFails(doc)
              /\ UNCHANGED vars
           \/ /\ ~LoadFails(doc)
              /\ Len(removals) = 0
              /\ RemoveCalled("idle", "RemoveCategory", category, AnyType, m)
           \/ /\ ~LoadFails(doc)
              /\ Len(removals) > 0
              /\ plan' = [NoPlan EXCEPT !.category = category,
                                        !.removals = removals]
              /\ pc' = "previewRemove"
              /\ mode' = m
              /\ UNCHANGED <<files, dirs, doc, release, st, queue, catQueue,
                             report, fixQueue, clock, env, run, before>>

\* "Yes, remove": the caller removes the category that was previewed
\* (cmd/cc-foundry/main.go, lines 228-244).
PreviewRemoveConfirmed ==
    /\ pc = "previewRemove"
    /\ RemoveCalled("previewRemove", "RemoveCategory", plan.category, AnyType,
                    mode)

\* "No, cancel" or Esc at the preview of a removal.
PreviewRemoveCancelled ==
    /\ pc = "previewRemove"
    /\ pc' = "idle"
    /\ plan' = NoPlan
    /\ mode' = "user"
    /\ UNCHANGED <<files, dirs, doc, release, st, queue, catQueue,
                   report, fixQueue, clock, env, run, before>>

(***************************************************************************)
(* The entry points, called from the main menu or repeated.                *)
(***************************************************************************)
Categories == Range(ListCategories)

\* A category the catalog does not contain.
NoSuchCategory == <<"nosuch">>

CategoryArgs == Categories \cup {AllCategories, NoSuchCategory}

InstallCategoryBegins(category, m) == InstallCategoryCalled("idle", category, m)

InstallTypeBegins(category, fileType, m) ==
    InstallTypeCalled("idle", category, fileType, m)

InstallAllBegins(m) == InstallAllCalled("idle", m)

RemoveCategoryBegins(category, m) ==
    RemoveCalled("idle", "RemoveCategory", category, AnyType, m)

RemoveTypeBegins(category, fileType, m) ==
    RemoveCalled("idle", "RemoveType", category, fileType, m)

RemoveAllBegins(m) ==
    RemoveCalled("idle", "RemoveAll", AllCategories, AnyType, m)

\* The call that has just returned without error is made again, with the
\* same arguments and the same install mode.
InstallAgain ==
    /\ pc = "done"
    /\ run.kind \in {"InstallCategory", "InstallType", "InstallAll"}
    /\ IF run.kind = "InstallCategory"
       THEN InstallCategoryCalled("done", run.cat, mode)
       ELSE IF run.kind = "InstallType"
       THEN InstallTypeCalled("done", run.cat, run.typ, mode)
       ELSE InstallAllCalled("done", mode)

RemoveAgain ==
    /\ pc = "done"
    /\ run.kind \in {"RemoveCategory", "RemoveType", "RemoveAll"}
    /\ RemoveCalled("done", run.kind, run.cat, run.typ, mode)

(***************************************************************************)
(* pkg/doctor.                                                             *)
(***************************************************************************)
\* Line 170: the hash of the bytes on disk.
currentHash(content) == <<"sha256", content>>

NoFix == [tag |-> "none", path |-> << >>, isDir |-> FALSE]

\* createFixMissingFileFunc, createRemoveOrphanedFunc: the repair of an issue
\* is the closure's captured arguments.
FixMissingFile(inst) ==
    [tag |-> "deregister", path |-> inst.InstalledPath, isDir |-> FALSE]

RemoveOrphaned(path, isDir) ==
    [tag |-> "removeOrphan", path |-> path, isDir |-> isDir]

\* A missing file reported without a repair.
MissingIssueNotFixable(inst) ==
    [Type |-> "error", Category |-> inst.Category, Kind |-> "missing",
     Path |-> inst.InstalledPath, CanFix |-> FALSE, Fix |-> NoFix]

MissingIssue(inst) ==
    [Type |-> "error", Category |-> inst.Category, Kind |-> "missing",
     Path |-> inst.InstalledPath, CanFix |-> TRUE, Fix |-> FixMissingFile(inst)]

\* A modified file offered the repair of a missing one.
ModifiedIssueDeregisters(inst) ==
    [Type |-> "warning", Category |-> inst.Category, Kind |-> "modified",
     Path |-> inst.InstalledPath, CanFix |-> TRUE, Fix |-> FixMissingFile(inst)]

ModifiedIssue(inst) ==
    [Type |-> "warning", Category |-> inst.Category, Kind |-> "modified",
     Path |-> inst.InstalledPath, CanFix |-> FALSE, Fix |-> NoFix]

OrphanedIssue(path, isDir) ==
    [Type |-> "warning", Category |-> <<"orphaned">>, Kind |-> "orphaned",
     Path |-> path, CanFix |-> TRUE, Fix |-> RemoveOrphaned(path, isDir)]

\* A file that exists and that os.ReadFile fails to read.
UnreadableIssue(inst) ==
    [Type |-> "error", Category |-> inst.Category, Kind |-> "unreadable",
     Path |-> inst.InstalledPath, CanFix |-> FALSE, Fix |-> NoFix]

\* The issues of checkClaudeConfig: "absent", "unreadable", "invalid", "large".
ConfigIssue(type, kind) ==
    [Type |-> type, Category |-> <<"config">>, Kind |-> kind,
     Path |-> ClaudeConfigPath, CanFix |-> FALSE, Fix |-> NoFix]

\* checkClaudeConfig that appends its issue without counting it.
checkClaudeConfigUncounted(fs, unreadable, rep) ==
    IF ~Exists(fs, ClaudeConfigPath)
    THEN [rep EXCEPT !.Issues = Append(@, ConfigIssue("warning", "absent"))]
    ELSE rep

\* checkClaudeConfig, lines 68-127.  unreadable is the path os.ReadFile
\* fails on in this run, or NoPath.
checkClaudeConfig(fs, unreadable, rep) ==
    IF ~Exists(fs, ClaudeConfigPath)
    THEN [rep EXCEPT !.Warnings = @ + 1,
                     !.Issues = Append(@, ConfigIssue("warning", "absent"))]
    ELSE IF unreadable = ClaudeConfigPath
    THEN [rep EXCEPT !.Errors = @ + 1,
                     !.Issues = Append(@, ConfigIssue("error", "unreadable"))]
    ELSE IF fs[ClaudeConfigPath] = InvalidJson
    THEN [rep EXCEPT !.Errors = @ + 1,
                     !.Issues = Append(@, ConfigIssue("error", "invalid"))]
    ELSE IF fs[ClaudeConfigPath] = LargeJson
    THEN [rep EXCEPT !.Warnings = @ + 1,
                     !.Issues = Append(@, ConfigIssue("warning", "large"))]
    ELSE rep

\* checkFileIntegrity, lines 140-181: the loop over the records.
RECURSIVE CheckRecords(_, _, _, _)
CheckRecords(insts, fs, unreadable, rep) ==
    IF insts = << >> THEN rep
    ELSE LET inst    == Head(insts)
             checked == [rep EXCEPT !.FilesChecked = @ + 1]
         IN  CheckRecords(Tail(insts), fs, unreadable,
                IF ~Exists(fs, inst.InstalledPath)
                THEN [checked EXCEPT !.MissingFiles = @ + 1,
                                     !.Errors = @ + 1,
                                     !.Issues = Append(@, MissingIssue(inst))]
                ELSE IF unreadable = inst.InstalledPath
                THEN [checked EXCEPT !.Errors = @ + 1,
                                     !.Issues = Append(@, UnreadableIssue(inst))]
                ELSE IF currentHash(fs[inst.InstalledPath]) # inst.Hash
                THEN [checked EXCEPT !.ModifiedFiles = @ + 1,
                                     !.Warnings = @ + 1,
                                     !.Issues = Append(@, ModifiedIssue(inst))]
                ELSE checked)

checkFileIntegrity(insts, fs, unreadable, rep) ==
    CheckRecords(insts, fs, unreadable, rep)

\* The names a type directory can hold in this model, in os.ReadDir order.
EntryNames ==
    << <<"ccf", "development", "makefile", "skills", "guide">>,
       <<"ccf", "old", ".md">>,
       <<"ccf", "oss", "development", "github", "badges", "skill">>,
       <<"ccf", "oss", "development", "oss", "auditor", ".md">> >>

IsDir(ds, path) == path \in ds

IsFile(fs, path) == path \in DOMAIN fs /\ Exists(fs, path)

ReadDir(fs, ds, dir) ==
    SelectSeq([i \in 1..Len(EntryNames) |-> dir \o <<EntryNames[i]>>],
              LAMBDA p : IsDir(ds, p) \/ IsFile(fs, p))

HasCcfPrefix(name) == Len(name) > 1 /\ name[1] = "ccf"

HasMdSuffix(name) == Len(name) > 0 /\ name[Len(name)] = ".md"

\* CheckEntry that does not look the entry up in the records.
CheckEntryIgnoresRecords(fullPath, subdir, managedPaths, fs, ds, rep) ==
    LET isDir == IsDir(ds, fullPath)
    IN  IF subdir # "skills" /\ isDir THEN rep
        ELSE IF HasCcfPrefix(Base(fullPath))
                  /\ (isDir \/ HasMdSuffix(Base(fullPath)))
        THEN [rep EXCEPT !.OrphanedFiles = @ + 1,
                         !.Warnings = @ + 1,
                         !.Issues = Append(@, OrphanedIssue(fullPath, isDir))]
        ELSE rep

\* detectConflictsInDir, lines 242-278: one entry of a type directory.
CheckEntry(fullPath, subdir, managedPaths, fs, ds, rep) ==
    LET isDir  == IsDir(ds, fullPath)
        orphan == [rep EXCEPT !.OrphanedFiles = @ + 1,
                              !.Warnings = @ + 1,
                              !.Issues = Append(@, OrphanedIssue(fullPath, isDir))]
    IN  IF subdir # "skills" /\ isDir THEN rep
        ELSE IF HasCcfPrefix(Base(fullPath)) /\ fullPath \notin managedPaths
        THEN IF subdir = "skills" /\ isDir
             THEN IF (fullPath \o <<SkillFile>>) \notin managedPaths
                  THEN orphan ELSE rep
             ELSE IF ~isDir /\ HasMdSuffix(Base(fullPath))
             THEN orphan ELSE rep
        ELSE rep

RECURSIVE CheckEntries(_, _, _, _, _, _)
CheckEntries(entries, subdir, managedPaths, fs, ds, rep) ==
    IF entries = << >> THEN rep
    ELSE CheckEntries(Tail(entries), subdir, managedPaths, fs, ds,
            CheckEntry(Head(entries), subdir, managedPaths, fs, ds, rep))

\* detectConflictsInDir, lines 225-282.
RECURSIVE CheckSubdirs(_, _, _, _, _, _)
CheckSubdirs(subdirs, baseDir, managedPaths, fs, ds, rep) ==
    IF subdirs = << >> THEN rep
    ELSE LET subdirPath == baseDir \o << <<Head(subdirs)>> >>
         IN  CheckSubdirs(Tail(subdirs), baseDir, managedPaths, fs, ds,
                IF ~IsDir(ds, subdirPath) THEN rep
                ELSE CheckEntries(ReadDir(fs, ds, subdirPath), Head(subdirs),
                                  managedPaths, fs, ds, rep))

detectConflictsInDir(baseDir, managedPaths, fs, ds, rep) ==
    IF ~IsDir(ds, baseDir) THEN rep
    ELSE CheckSubdirs(TypeOrder, baseDir, managedPaths, fs, ds, rep)

\* detectConflicts that scans the user-level directory alone.
detectConflictsUserOnly(insts, fs, ds, rep) ==
    detectConflictsInDir(GetClaudeCodeDir("user"),
                         {insts[i].InstalledPath : i \in 1..Len(insts)},
                         fs, ds, rep)

\* detectConflicts, lines 187-222: the user-level directory, then the
\* project-level directory when it exists.
detectConflicts(insts, fs, ds, rep) ==
    LET managedPaths == {insts[i].InstalledPath : i \in 1..Len(insts)}
        user == detectConflictsInDir(GetClaudeCodeDir("user"), managedPaths,
                                     fs, ds, rep)
    IN  IF IsDir(ds, GetClaudeCodeDir("project"))
        THEN detectConflictsInDir(GetClaudeCodeDir("project"), managedPaths,
                                  fs, ds, user)
        ELSE user

\* The check of Run in which state.Load returns an error, or none.
LoadFailures == {"none", "checkFileIntegrity", "detectConflicts"}

\* Run that takes an error issue of checkClaudeConfig for an error of the
\* check.
RunStopsAtConfigError(d, fs, ds, unreadable, failAt) ==
    LET config    == checkClaudeConfig(fs, unreadable, NoReport)
        integrity == checkFileIntegrity(Load(d), fs, unreadable, config)
    IN  IF config.Errors > 0 \/ failAt = "checkFileIntegrity"
        THEN [report |-> config, err |-> TRUE]
        ELSE IF failAt = "detectConflicts"
        THEN [report |-> integrity, err |-> TRUE]
        ELSE [report |-> detectConflicts(Load(d), fs, ds, integrity),
              err |-> FALSE]

\* Run, lines 36-65: the three checks in turn; the first check that returns
\* an error ends the run, and Run returns the report as it is then.
Run(d, fs, ds, unreadable, failAt) ==
    LET config    == checkClaudeConfig(fs, unreadable, NoReport)
        integrity == checkFileIntegrity(Load(d), fs, unreadable, config)
    IN  IF failAt = "checkFileIntegrity" THEN [report |-> config, err |-> TRUE]
        ELSE IF failAt = "detectConflicts" THEN [report |-> integrity, err |-> TRUE]
        ELSE [report |-> detectConflicts(Load(d), fs, ds, integrity),
              err |-> FALSE]

\* OfferFixes, lines 363-368.
FixableIssues(rep) ==
    SelectSeq(rep.Issues, LAMBDA issue : issue.CanFix /\ issue.Fix.tag # "none")

\* The files os.ReadFile can fail on in a run of doctor: ~/.claude.json and
\* the files of the records, when they exist.
Readable(d, fs) ==
    {p \in FilePaths :
        /\ Exists(fs, p)
        /\ p = ClaudeConfigPath \/ Tracked(Load(d), p)}

\* doctor.Run that deregisters the records whose file is gone while it checks
\* them.
DoctorRunDeregisters(unreadable, failAt) ==
    LET log == [StartRun("idle", "Doctor", AllCategories, AnyType, release)
                   EXCEPT !.failed = {unreadable} \ {NoPath}]
        res == Run(doc, files, dirs, unreadable, failAt)
    IN  /\ CanStart("idle")
        /\ unreadable = NoPath
        /\ failAt = "none"
        /\ ~LoadFails(doc)
        /\ clock' = clock + 1
        /\ before' = StatusMap
        /\ report' = res.report
        /\ run' = log
        /\ fixQueue' = FixableIssues(res.report)
        /\ pc' = "doctor"
        /\ doc' = Save(SelectSeq(Load(doc),
                                 LAMBDA inst : Exists(files, inst.InstalledPath)))
        /\ UNCHANGED <<files, dirs, release, mode, st, queue, catQueue, plan,
                       env>>

\* doctor.Run followed by PrintReport (handleDoctor, lines 249-259).  An
\* error of Run is printed in place of the report, and no repair is offered.
DoctorRun(unreadable, failAt) ==
    LET log == [StartRun("idle", "Doctor", AllCategories, AnyType, release)
                   EXCEPT !.failed = {unreadable} \ {NoPath}]
        res == Run(doc, files, dirs, unreadable, failAt)
    IN  /\ CanStart("idle")
        /\ unreadable # NoPath => unreadable \in Readable(doc, files)
        /\ unreadable # NoPath => failAt = "none"
        /\ LoadFails(doc) => (failAt = "checkFileIntegrity" /\ unreadable = NoPath)
        /\ IF unreadable # NoPath \/ (failAt # "none" /\ ~LoadFails(doc))
           THEN EnvEvent ELSE UNCHANGED env
        /\ clock' = clock + 1
        /\ before' = StatusMap
        /\ report' = res.report
        /\ IF res.err
           THEN /\ run' = [log EXCEPT !.outcome = "error"]
                /\ fixQueue' = << >>
                /\ pc' = "done"
           ELSE /\ run' = log
                /\ fixQueue' = FixableIssues(res.report)
                /\ pc' = "doctor"
        /\ UNCHANGED <<files, dirs, doc, release, mode, st, queue, catQueue,
                       plan>>

\* OfferFixes, lines 370-385: nothing to fix, or the user answers no.
FixesDeclined ==
    /\ pc = "doctor"
    /\ fixQueue' = << >>
    /\ run' = [run EXCEPT !.outcome = "ok"]
    /\ Returned
    /\ UNCHANGED <<files, dirs, doc, release, mode, plan, report, clock, env,
                   before>>

\* The repair of an issue fails by itself: os.Remove of a file that is gone,
\* state.Load of a document that does not decode.
FixFailsAlone(fix, fs) ==
    \/ fix.tag = "removeOrphan" /\ ~fix.isDir /\ ~IsFile(fs, fix.path)
    \/ fix.tag = "deregister" /\ LoadFails(doc)

\* OfferFixes that gives up at the first repair that fails.
FixStepStopsAtFailure(fixOk) ==
    /\ pc \in {"doctor", "fix"}
    /\ fixQueue # << >>
    /\ pc' = "fix"
    /\ fixQueue' = IF fixOk /\ ~FixFailsAlone(Head(fixQueue).Fix, files)
                 THEN Tail(fixQueue) ELSE << >>
    /\ LET fix == Head(fixQueue).Fix
       IN  IF fixOk /\ ~FixFailsAlone(fix, files)
           THEN /\ run' = [run EXCEPT !.fixed = @ + 1,
                              !.dereg = IF fix.tag = "deregister"
                                        THEN @ \cup {fix.path} ELSE @,
                              !.deleted = IF fix.tag = "removeOrphan"
                                          THEN @ \cup {fix.path} ELSE @,
                              !.saves = IF fix.tag = "deregister"
                                        THEN @ + 1 ELSE @]
                /\ doc' = IF fix.tag = "deregister"
                          THEN Save(StateRemoveInstallation(Load(doc), fix.path))
                          ELSE doc
                /\ files' = IF fix.tag = "removeOrphan"
                            THEN IF fix.isDir THEN RemoveAllFiles(files, fix.path)
                                 ELSE Remove(files, fix.path)
                            ELSE files
                /\ dirs' = IF fix.tag = "removeOrphan" /\ fix.isDir
                           THEN RemoveAllDirs(dirs, fix.path) ELSE dirs
                /\ UNCHANGED env
           ELSE /\ run' = [run EXCEPT !.fixFails = @ + 1]
                /\ IF fixOk THEN UNCHANGED env ELSE EnvEvent
                /\ UNCHANGED <<files, dirs, doc>>
    /\ UNCHANGED <<release, mode, st, queue, catQueue, plan, report, clock,
                   before>>

\* OfferFixes, lines 391-399: the repair of the next fixable issue.  fixOk is
\* the outcome of the I/O it does.
FixStep(fixOk) ==
    /\ pc \in {"doctor", "fix"}
    /\ fixQueue # << >>
    /\ pc' = "fix"
    /\ fixQueue' = Tail(fixQueue)
    /\ LET fix == Head(fixQueue).Fix
       IN  IF fixOk /\ ~FixFailsAlone(fix, files)
           THEN /\ run' = [run EXCEPT !.fixed = @ + 1,
                              !.dereg = IF fix.tag = "deregister"
                                        THEN @ \cup {fix.path} ELSE @,
                              !.deleted = IF fix.tag = "removeOrphan"
                                          THEN @ \cup {fix.path} ELSE @,
                              !.saves = IF fix.tag = "deregister"
                                        THEN @ + 1 ELSE @]
                /\ doc' = IF fix.tag = "deregister"
                          THEN Save(StateRemoveInstallation(Load(doc), fix.path))
                          ELSE doc
                /\ files' = IF fix.tag = "removeOrphan"
                            THEN IF fix.isDir THEN RemoveAllFiles(files, fix.path)
                                 ELSE Remove(files, fix.path)
                            ELSE files
                /\ dirs' = IF fix.tag = "removeOrphan" /\ fix.isDir
                           THEN RemoveAllDirs(dirs, fix.path) ELSE dirs
                /\ UNCHANGED env
           ELSE /\ run' = [run EXCEPT !.fixFails = @ + 1]
                /\ IF fixOk THEN UNCHANGED env ELSE EnvEvent
                /\ UNCHANGED <<files, dirs, doc>>
    /\ UNCHANGED <<release, mode, st, queue, catQueue, plan, report, clock,
                   before>>

\* OfferFixes, lines 401-402.
FixesDone ==
    /\ pc = "fix"
    /\ fixQueue = << >>
    /\ run' = [run EXCEPT !.outcome = "ok"]
    /\ Returned
    /\ UNCHANGED <<files, dirs, doc, release, mode, plan, report, fixQueue,
                   clock, env, before>>

(***************************************************************************)
(* The environment.                                                        *)
(***************************************************************************)
\* They happen between operations and are logged like one.
External ==
    /\ pc = "idle"
    /\ EnvEvent
    /\ before' = StatusMap
    /\ run' = [NoRun EXCEPT !.kind = "External"]
    /\ pc' = "done"

\* The user writes a file (edits an installed file, or creates one).
ExternalWrite(path) ==
    /\ External
    /\ files[path] # UserContent
    /\ path = SkillNote => Dir(path) \in dirs
    /\ files' = WriteFile(files, path, UserContent)
    /\ dirs' = MkdirAll(dirs, Dir(path))
    /\ UNCHANGED <<doc, release, mode, st, queue, catQueue, plan, report,
                   fixQueue, clock>>

\* The user deletes a file.
ExternalDelete(path) ==
    /\ External
    /\ Exists(files, path)
    /\ files' = Remove(files, path)
    /\ UNCHANGED <<dirs, doc, release, mode, st, queue, catQueue, plan,
                   report, fixQueue, clock>>

\* The State document is overwritten with bytes that are not its JSON (an
\* edit by hand, a truncated copy).
ExternalCorruptState ==
    /\ pc = "idle"
    /\ EnvEvent
    /\ doc # CorruptDocument
    /\ doc' = CorruptDocument
    /\ UNCHANGED <<files, dirs, release, mode, st, pc, queue, catQueue, plan,
                   report, fixQueue, clock, run, before>>

\* A new version of the tool is installed: the bundled catalog changes.
NewRelease ==
    /\ pc = "idle"
    /\ release < MaxRelease
    /\ release' = release + 1
    /\ UNCHANGED <<files, dirs, doc, mode, st, pc, queue, catQueue, plan,
                   report, fixQueue, clock, env, run, before>>

\* The process is terminated from outside while an operation runs.
Kill ==
    /\ pc \in {"install", "installAll", "remove", "fix"}
    /\ EnvEvent
    /\ fixQueue' = << >>
    /\ run' = [run EXCEPT !.outcome = "killed"]
    /\ Returned
    /\ UNCHANGED <<files, dirs, doc, release, mode, plan, report, clock,
                   before>>

Next ==
    \/ \E c \in CategoryArgs, m \in Modes : InstallCategoryBegins(c, m)
    \/ \E c \in Categories, t \in Types, m \in Modes : InstallTypeBegins(c, t, m)
    \/ \E m \in Modes : InstallAllBegins(m)
    \/ InstallAgain
    \/ InstallAllNextCategory
    \/ \E ok \in BOOLEAN, partial \in BOOLEAN : InstallFileStep(ok, partial)
    \/ InstallSave
    \/ \E c \in CategoryArgs, m \in Modes : RemoveCategoryBegins(c, m)
    \/ \E c \in Categories, t \in Types, m \in Modes : RemoveTypeBegins(c, t, m)
    \/ \E m \in Modes : RemoveAllBegins(m)
    \/ RemoveAgain
    \/ \E ok \in BOOLEAN, partial \in BOOLEAN : RemoveStep(ok, partial)
    \/ RemoveSave
    \/ \E c \in CategoryArgs, t \in Types \cup {AnyType}, m \in Modes :
          PreviewInstall(c, t, m)
    \/ PreviewConfirmed
    \/ PreviewCancelled
    \/ \E c \in Categories, m \in Modes : PreviewRemove(c, m)
    \/ PreviewRemoveConfirmed
    \/ PreviewRemoveCancelled
    \/ \E u \in FilePaths \cup {NoPath}, f \in LoadFailures : DoctorRun(u, f)
    \/ FixesDeclined
    \/ \E ok \in BOOLEAN : FixStep(ok)
    \/ FixesDone
    \/ Return
    \/ \E p \in AllPaths \cup {SkillNote} : ExternalWrite(p)
    \/ \E p \in AllPaths \cup {SkillNote} : ExternalDelete(p)
    \/ ExternalCorruptState
    \/ NewRelease
    \/ Kill

Spec == Init /\ [][Next]_vars

(***************************************************************************)
(* Diagnostics on a machine in use.  A fixture gives every path one status *)
(* of the life of an installed file: never installed ("absent"); installed *)
(* from release 1 and untouched ("installed"); installed, then deleted by  *)
(* the user ("missing"); installed, then edited by the user ("modified");  *)
(* present without a record ("orphaned").  DoctorSpec runs doctor and its  *)
(* repairs from every fixture of at most MaxFixture paths in use and every *)
(* state of ~/.claude.json.                                                *)
(***************************************************************************)
MaxFixture == 3     \* paths of a fixture that are not "absent"

FixtureStatuses == {"absent", "installed", "missing", "modified", "orphaned"}

ConfigContents == {NoFile, UserContent, InvalidJson, LargeJson}

\* The catalog entry and the install mode of an installed path.
EntryOf(path) ==
    CHOOSE e \in CatalogEntries : \E m \in Modes : InstalledPath(e, m) = path

ModeOf(path) ==
    CHOOSE m \in Modes : \E e \in CatalogEntries : InstalledPath(e, m) = path

\* The installed paths in the order InstallAll writes them, user level first.
InstallOrder ==
    [i \in 1..(2 * Len(CatalogFS)) |->
        InstalledPath(CatalogFS[((i - 1) % Len(CatalogFS)) + 1],
                      IF i <= Len(CatalogFS) THEN "user" ELSE "project")]

\* The record AddInstallation made when release 1 was installed at the path.
FixtureRecord(path) ==
    [Category      |-> EntryOf(path).Category,
     Type          |-> EntryOf(path).Type,
     File          |-> EntryOf(path).Filename,
     InstalledPath |-> path,
     Hash          |-> calculateHash(ContentOf(EntryOf(path), 1)),
     InstalledAt   |-> 0]

FixtureDoc(f) ==
    LET tracked == SelectSeq(InstallOrder,
                     LAMBDA p : f[p] \in {"installed", "missing", "modified"})
    IN  Save([i \in 1..Len(tracked) |-> FixtureRecord(tracked[i])])

FixtureFiles(f, cfg) ==
    [p \in FilePaths |->
        IF p = ClaudeConfigPath THEN cfg
        ELSE IF p = SkillNote THEN NoFile
        ELSE IF f[p] = "installed" THEN ContentOf(EntryOf(p), 1)
        ELSE IF f[p] \in {"modified", "orphaned"} THEN UserContent
        ELSE NoFile]

\* The directories: the type directories of a root that was installed to,
\* and the directory of every skill; keep says whether the user who deleted
\* a skill left its directory.
FixtureDirs(f, keep) ==
    LET used(m) == \E p \in AllPaths :
                      f[p] # "absent" /\ IsPrefix(GetClaudeCodeDir(m), p)
        skillDirs == {Dir(p) : p \in {q \in AllPaths :
                         /\ Base(q) = SkillFile
                         /\ \/ f[q] \in {"installed", "modified", "orphaned"}
                            \/ f[q] = "missing" /\ keep}}
    IN  Ancestors(Home) \cup Ancestors(Cwd)
          \cup UNION {EnsureDirectoriesExist({}, m) : m \in {n \in Modes : used(n)}}
          \cup UNION {Ancestors(d) : d \in skillDirs}

Fixtures ==
    {f \in [AllPaths -> FixtureStatuses] :
        /\ f[OldCommand] \in {"absent", "orphaned"}
        /\ Cardinality({p \in AllPaths : f[p] # "absent"}) <= MaxFixture}

DoctorInit ==
    /\ \E f \in Fixtures, cfg \in ConfigContents, keep \in BOOLEAN :
          /\ files = FixtureFiles(f, cfg)
          /\ dirs = FixtureDirs(f, keep)
          /\ doc = FixtureDoc(f)
    /\ release = 1
    /\ mode = "user"
    /\ st = EmptyState
    /\ pc = "idle"
    /\ queue = << >>
    /\ catQueue = << >>
    /\ plan = NoPlan
    /\ report = NoReport
    /\ fixQueue = << >>
    /\ clock = 0
    /\ env = 0
    /\ run = NoRun
    /\ before = NoStatus

DoctorNext ==
    \/ \E u \in FilePaths \cup {NoPath}, f \in LoadFailures : DoctorRun(u, f)
    \/ FixesDeclined
    \/ \E ok \in BOOLEAN : FixStep(ok)
    \/ FixesDone
    \/ Return
    \/ Kill

DoctorSpec == DoctorInit /\ [][DoctorNext]_vars

(***************************************************************************)
(* Properties.                                                             *)
(***************************************************************************)
InstallKinds == {"InstallCategory", "InstallType", "InstallAll"}

RemoveKinds == {"RemoveCategory", "RemoveType", "RemoveAll"}

RecordsAt(insts, path) == {i \in 1..Len(insts) : insts[i].InstalledPath = path}

\* The records hold exactly one record at the path, with this hash.
HoldsRecord(insts, path, hash) ==
    /\ Cardinality(RecordsAt(insts, path)) = 1
    /\ \A i \in RecordsAt(insts, path) : insts[i].Hash = hash

\* The records the running operation created carry its timestamp.
CreatedByThisRun(insts) == {i \in 1..Len(insts) : insts[i].InstalledAt = clock}

InstallReturned == pc = "done" /\ run.kind \in InstallKinds

RemoveReturned == pc = "done" /\ run.kind \in RemoveKinds

\* C1: whatever install runs, remove runs and doctor repairs have happened
\* since the absent or empty State document, no two Installation records of
\* the State (the document, and the State an operation holds in memory) have
\* the same InstalledPath.
C1_OneRecordPerPath ==
    /\ \A p \in AllPaths : Cardinality(RecordsAt(Load(doc), p)) <= 1
    /\ \A p \in AllPaths : Cardinality(RecordsAt(st, p)) <= 1

\* An install run that updated a record has saved the State.
C1_Witness ==
    /\ InstallReturned
    /\ run.outcome = "ok"
    /\ run.updates > 0
    /\ Len(Load(doc)) > 1

\* C2: when a write fails part-way through an install batch, the entries
\* after it are not attempted, the files written before it are still on
\* disk, and the State document the next operation loads holds their fresh
\* records.
C2_EarlierUpdatesRetained ==
    (InstallReturned /\ run.outcome = "error" /\ run.failed # {}) =>
        /\ run.tried <= run.n
        /\ \A w \in run.written :
              /\ files[w[1]] = w[2]
              /\ HoldsRecord(Load(doc), w[1], calculateHash(w[2]))

\* C3, as stated: at every point of an install batch, also when the process
\* has been killed, the State document holds for every file the batch has
\* written a record at that path with the hash of the written content.
C3_DocumentHoldsWrittenFiles ==
    run.kind \in InstallKinds =>
        \A w \in run.written : HoldsRecord(Load(doc), w[1], calculateHash(w[2]))

\* C3, amended: while a batch runs, every file it has written is on disk with
\* the written content and the State in memory holds exactly one record at
\* its path, with the hash of that content; the State document holds no
\* record of the run before the batch's Save, and holds the records of all
\* written files once the run has returned without error.
C3_MemoryHoldsWrittenFiles ==
    /\ (pc = "install" /\ run.kind \in InstallKinds) =>
          \A w \in run.written :
              /\ files[w[1]] = w[2]
              /\ HoldsRecord(st, w[1], calculateHash(w[2]))
    /\ (run.kind \in InstallKinds /\ run.saves = 0) =>
          CreatedByThisRun(Load(doc)) = {}
    /\ (InstallReturned /\ run.outcome = "ok") =>
          \A w \in run.written : HoldsRecord(Load(doc), w[1], calculateHash(w[2]))

\* The process was killed after the batch wrote a file and before its Save.
C3_Witness ==
    /\ InstallReturned
    /\ run.outcome = "killed"
    /\ run.written # {}
    /\ run.saves = 0

\* C4, as stated: the second of two install runs of the same subset, the
\* catalog unchanged, installs 0, updates 0, skips all N files and writes
\* nothing to the file system.
C4_SecondRunWritesNothing ==
    (InstallReturned /\ run.repeat /\ run.outcome = "ok") =>
        /\ run.installs = 0 /\ run.updates = 0 /\ run.skips = run.n
        /\ run.written = {} /\ run.mkdirs = {}
        /\ run.saves = 0

\* C4, amended: the second run installs 0, updates 0 and skips all N files,
\* writes no file of the catalog and creates no directory; it writes the State
\* document once per batch (InstallAll: once per category), with no record
\* changed.
C4_SecondRunSkipsAll ==
    (InstallReturned /\ run.repeat /\ run.outcome = "ok") =>
        /\ run.n = run.prior /\ run.n > 0
        /\ run.installs = 0 /\ run.updates = 0 /\ run.skips = run.n
        /\ run.written = {} /\ run.mkdirs = {}
        /\ run.saves = (IF run.kind = "InstallAll" THEN Len(ListCategories) ELSE 1)
        /\ CreatedByThisRun(Load(doc)) = {}

\* The second run of a subset of two files has returned.
C4_Witness ==
    /\ InstallReturned
    /\ run.repeat
    /\ run.outcome = "ok"
    /\ run.skips > 1

\* The entries of the catalog in a subset: the whole catalog, a category, or
\* a type of a category.
SubsetEntries(category, fileType) ==
    {e \in Range(CatalogFS) :
        category # AllCategories =>
            /\ e.Category = category
            /\ fileType # AnyType => e.Type = fileType}

ChangesWith(action) ==
    {i \in 1..Len(plan.changes) : plan.changes[i].Action = action}

\* C5: the plan PreviewInstall builds has one change for every file of the
\* requested subset, at the path InstallFile installs the file to; the change
\* is "install" when the State has no record at that path, "update" when it
\* has one whose hash differs from the hash of the catalog content, "skip"
\* when it has one with that hash; the three counts are the numbers of such
\* changes and sum to the number of files of the subset.
C5_PlanClassifiesByRecord ==
    pc = "preview" =>
        LET insts  == Load(doc)
            subset == {CategoryFile(e, release) :
                          e \in SubsetEntries(plan.category, plan.fileType)}
        IN  /\ {plan.changes[i].File : i \in 1..Len(plan.changes)} = subset
            /\ Len(plan.changes) = Cardinality(subset)
            /\ \A i \in 1..Len(plan.changes) :
                  LET file   == plan.changes[i].File
                      target == InstalledPath(file, mode)
                      found  == RecordsAt(insts, target)
                  IN  /\ plan.changes[i].Path = target
                      /\ plan.changes[i].Action =
                            IF found = {} THEN "install"
                            ELSE IF \E k \in found :
                                      insts[k].Hash # calculateHash(file.Content)
                            THEN "update" ELSE "skip"
            /\ plan.installCount = Cardinality(ChangesWith("install"))
            /\ plan.updateCount = Cardinality(ChangesWith("update"))
            /\ plan.skipCount = Cardinality(ChangesWith("skip"))
            /\ plan.installCount + plan.updateCount + plan.skipCount
                  = Cardinality(subset)

\* A plan with an install, an update and a skip.
C5_Witness ==
    /\ pc = "preview"
    /\ plan.installCount > 0
    /\ plan.updateCount > 0
    /\ plan.skipCount > 0

\* C6: from the install or update that created a record until the run
\* returns, the hash the record stores is the hash of the bytes on disk at
\* its InstalledPath; this holds for the State in memory and for the State
\* document once saved.
C6_HashOfBytesOnDisk ==
    (pc \in {"install", "installAll", "done"} /\ run.kind \in InstallKinds) =>
        /\ \A i \in CreatedByThisRun(st) :
              /\ Exists(files, st[i].InstalledPath)
              /\ st[i].Hash = currentHash(files[st[i].InstalledPath])
        /\ \A i \in CreatedByThisRun(Load(doc)) :
              /\ Exists(files, Load(doc)[i].InstalledPath)
              /\ Load(doc)[i].Hash = currentHash(files[Load(doc)[i].InstalledPath])

\* An install and an update of one batch have been saved.
C6_Witness ==
    /\ InstallReturned
    /\ run.installs > 0
    /\ run.updates > 0
    /\ Cardinality(CreatedByThisRun(Load(doc))) > 1

\* The status of the record at a path when the operation began, and now.
Move(p) == <<before[p], Status(Load(doc), files, p)>>

WrittenPaths == {w[1] : w \in run.written}

\* C7, as stated: a record goes from untracked to installed by an install,
\* stays installed by an update, goes from installed to missing when the file
\* is deleted externally, from missing to untracked by the deregister repair,
\* from installed to untracked by a remove; over an operation that returns
\* without error it makes no other transition.
C7_Lifecycle ==
    (pc = "done" /\ run.outcome = "ok") =>
        \A p \in AllPaths :
            \/ Move(p)[1] = Move(p)[2]
            \/ run.kind \in InstallKinds /\ Move(p) = <<"untracked", "installed">>
            \/ run.kind = "External" /\ Move(p) = <<"installed", "missing">>
            \/ run.kind = "Doctor" /\ Move(p) = <<"missing", "untracked">>
            \/ run.kind \in RemoveKinds /\ Move(p) = <<"installed", "untracked">>

\* C7, amended: over an install run a record goes from untracked to installed
\* (the file written, the State saved) or from missing to installed (an
\* update wrote the file again, be it in part by a write that failed; an
\* entry whose content is unchanged is skipped and its record stays missing),
\* and an updated record is the only record at its path; over a remove run it goes from installed or missing to
\* untracked when the State is saved, and from installed to missing when the
\* run ends (a delete error of RemoveCategory / RemoveType, a kill) after
\* deleting its file and before saving; over a doctor run it goes from
\* missing to untracked only; outside the operations it goes from installed
\* to missing (file deleted) and from missing to installed (file put back).
C7_LifecycleOfRecords ==
    pc = "done" =>
        \A p \in AllPaths :
            \/ /\ Move(p)[1] = Move(p)[2]
               /\ (run.kind \in InstallKinds /\ run.outcome = "ok"
                      /\ p \in WrittenPaths) =>
                     Cardinality(RecordsAt(Load(doc), p)) = 1
            \/ /\ run.kind \in InstallKinds
               /\ \/ /\ Move(p) = <<"untracked", "installed">>
                     /\ p \in WrittenPaths
                     /\ run.saves > 0
                  \/ /\ Move(p) = <<"missing", "installed">>
                     /\ p \in WrittenPaths \cup run.failed
            \/ /\ run.kind \in RemoveKinds
               /\ \/ /\ Move(p) \in {<<"installed", "untracked">>,
                                     <<"missing", "untracked">>}
                     /\ run.saves > 0
                     /\ p \in run.dereg
                  \/ /\ Move(p) = <<"installed", "missing">>
                     /\ run.saves = 0
                     /\ run.outcome \in {"error", "killed"}
            \/ /\ run.kind = "Doctor"
               /\ Move(p) = <<"missing", "untracked">>
               /\ p \in run.dereg
            \/ /\ run.kind = "External"
               /\ Move(p) \in {<<"installed", "missing">>, <<"missing", "installed">>}

\* The deregister repair of doctor has made a missing record untracked.
C7_Witness ==
    /\ pc = "done"
    /\ run.kind = "Doctor"
    /\ \E p \in AllPaths : Move(p) = <<"missing", "untracked">>

\* The records of the State document the returned remove run was to remove.
StillMatching ==
    ListInstallationsForCurrentMode(Load(doc), run.cat, run.typ, mode)

C9_EarlierRemovalsRetained ==
    (RemoveReturned /\ run.failed # {} /\ run.outcome = "error") =>
        /\ run.tried <= run.n
        /\ \A p \in AllPaths :
              (\E t \in run.deleted : IsPrefix(t, p)) =>
                  /\ ~Exists(files, p)
                  /\ RecordsAt(Load(doc), p) = {}

\* C10: the second of two RemoveCategory calls for a category finds no
\* matching record, deletes nothing, does not write the State document and
\* returns without error.
C10_SecondRemoveDoesNothing ==
    (RemoveReturned /\ run.kind = "RemoveCategory" /\ run.repeat) =>
        /\ run.n = 0 /\ run.tried = 0
        /\ run.deleted = {} /\ run.failed = {} /\ run.dereg = {}
        /\ run.saves = 0
        /\ run.outcome = "ok"

\* The second call has returned; the first one removed records.
C10_Witness ==
    /\ RemoveReturned
    /\ run.kind = "RemoveCategory"
    /\ run.repeat
    /\ run.prior > 0

\* What has to go for the record at a path: the directory of a skill, the
\* file of a command or an agent.
TargetOf(path) == IF Base(path) = SkillFile THEN Dir(path) ELSE path

\* C11: for every record of a remove batch whose delete did not fail, the
\* file at its InstalledPath is gone, and for a skill the directory that
\* held SKILL.md is gone with everything below it; a remove run that
\* returned without error leaves no matching record in the State.
C11_RemoveDeletesFileOrDirectory ==
    RemoveReturned =>
        /\ \A p \in run.dereg : TargetOf(p) \in run.deleted \cup run.failed
        /\ \A p \in run.dereg :
              TargetOf(p) \in run.deleted =>
                  /\ ~Exists(files, p)
                  /\ Base(p) = SkillFile =>
                        /\ Dir(p) \notin dirs
                        /\ \A q \in AllPaths : IsPrefix(Dir(p), q) => ~Exists(files, q)
        /\ run.outcome = "ok" => StillMatching = << >>

\* RemoveType has removed the skills of a category.
C11_Witness ==
    /\ RemoveReturned
    /\ run.kind = "RemoveType"
    /\ run.typ = "skills"
    /\ run.outcome = "ok"
    /\ run.deleted # {}
    /\ run.failed = {}

\* C12, as stated: an install run that returns without error has saved the
\* State document exactly once, whatever the shape of the batch.
C12_SavedExactlyOnce ==
    (InstallReturned /\ run.outcome = "ok") => run.saves = 1

\* The categories InstallAll has completely installed.
CategoriesDone ==
    Len(ListCategories) - Len(catQueue) - (IF pc = "install" THEN 1 ELSE 0)

\* C12, amended: InstallCategory (one category, or the whole catalog when the
\* category is "") and InstallType save the State document exactly once,
\* after the last entry of the batch, and not at all when the batch ends by
\* an error or a kill; InstallAll saves it once per category, after the last
\* entry of that category, so that it has saved once for every category it
\* has completely installed.
C12_SavedOncePerBatch ==
    /\ (run.kind \in {"InstallCategory", "InstallType"}) =>
          /\ pc = "install" => run.saves = 0
          /\ pc = "done" => run.saves = (IF run.outcome = "ok" THEN 1 ELSE 0)
    /\ (run.kind = "InstallAll") =>
          /\ pc \in {"install", "installAll"} => run.saves = CategoriesDone
          /\ (pc = "done" /\ run.outcome = "ok") => run.saves = Len(ListCategories)
          /\ pc = "done" => run.saves <= Len(ListCategories)

\* InstallAll has installed two categories and saved twice.
C12_Witness ==
    /\ InstallReturned
    /\ run.kind = "InstallAll"
    /\ run.outcome = "ok"
    /\ run.saves = 2
    /\ run.installs > 1

\* The next entry of the batch is a skip entry: the State in memory holds a
\* record at its target path with the hash of its content.
NextEntryIsSkip ==
    /\ pc = "install"
    /\ queue # << >>
    /\ HoldsRecord(st, InstalledPath(Head(queue), mode),
                   calculateHash(Head(queue).Content))

\* C13: when InstallFile is applied to a skip entry, every file has the
\* content it had, the record at the entry's path has the hash and the
\* InstalledAt it had, and every other record is as it was, in memory and in
\* the State document.
C13_SkipMutatesNothing ==
    [][(NextEntryIsSkip /\ pc' = "install" /\ run'.tried = run.tried + 1) =>
          /\ files' = files
          /\ st' = st
          /\ doc' = doc]_vars

\* A skip entry has been applied in a batch over a State of several records.
C13_Witness ==
    /\ pc = "install"
    /\ run.skips > 0
    /\ run.tried = run.skips
    /\ Len(st) > 1

\* C14: building a plan changes neither the State document, nor the records
\* in memory, nor any file or directory, and so does discarding it: a step
\* that shows a preview, and a step that cancels one, leave all four as they
\* were, however often they are taken.
C14_PlanIsPure ==
    [][(\/ pc = "idle" /\ pc' = "preview"
        \/ pc = "preview" /\ pc' = "idle") =>
          /\ doc' = doc
          /\ st' = st
          /\ files' = files
          /\ dirs' = dirs]_vars

\* A plan with something to do has been built over a State that has records.
C14_Witness ==
    /\ pc = "preview"
    /\ Len(Load(doc)) > 0
    /\ plan.installCount + plan.updateCount > 0
    /\ plan.skipCount > 0

\* The issues of one kind in the report, and the paths they name.
IssuesOfKind(kind) == SelectSeq(report.Issues, LAMBDA issue : issue.Kind = kind)

IssuePaths(kind) == {issue.Path : issue \in Range(IssuesOfKind(kind))}

IntegrityKinds == {"missing", "modified", "orphaned", "unreadable"}

\* What the State document and the file system show, read without doctor:
\* the records whose file is gone, the records whose file has other bytes
\* than the record's hash says, and the ccf- items that have no record.
MissingPaths ==
    {p \in AllPaths : Tracked(Load(doc), p) /\ ~Exists(files, p)}

ModifiedPaths ==
    {p \in AllPaths :
        /\ Tracked(Load(doc), p)
        /\ Exists(files, p)
        /\ \E i \in RecordsAt(Load(doc), p) :
              Load(doc)[i].Hash # calculateHash(files[p])}

OrphanItems ==
    {TargetOf(p) : p \in {q \in AllPaths :
        /\ ~Tracked(Load(doc), q)
        /\ IF Base(q) = SkillFile THEN Dir(q) \in dirs ELSE Exists(files, q)}}

\* C15: a diagnostics run in which no read failed reports one missing issue
\* (fixable) for every record whose file was deleted, one modified issue (not
\* fixable) for every record whose file was altered, one orphaned issue
\* (fixable) for every ccf- item without a record, and no other integrity or
\* orphan issue; so for a fixture with one of each it reports exactly one
\* missing, one modified and one orphaned issue, for a command or agent file
\* and for a skill directory alike.
C15_ExactlyOneIssuePerDefect ==
    (pc = "doctor" /\ run.failed = {}) =>
        /\ IssuePaths("missing") = MissingPaths
        /\ Len(IssuesOfKind("missing")) = Cardinality(MissingPaths)
        /\ report.MissingFiles = Cardinality(MissingPaths)
        /\ \A issue \in Range(IssuesOfKind("missing")) : issue.CanFix
        /\ IssuePaths("modified") = ModifiedPaths
        /\ Len(IssuesOfKind("modified")) = Cardinality(ModifiedPaths)
        /\ report.ModifiedFiles = Cardinality(ModifiedPaths)
        /\ \A issue \in Range(IssuesOfKind("modified")) : ~issue.CanFix
        /\ IssuePaths("orphaned") = OrphanItems
        /\ Len(IssuesOfKind("orphaned")) = Cardinality(OrphanItems)
        /\ report.OrphanedFiles = Cardinality(OrphanItems)
        /\ \A issue \in Range(IssuesOfKind("orphaned")) : issue.CanFix
        /\ IssuesOfKind("unreadable") = << >>
        /\ \A issue \in Range(report.Issues) :
              issue.Kind \in IntegrityKinds \/ issue.Category = <<"config">>

\* The fixture of the claim: one deleted skill, one altered agent, one skill
\* directory without a record, and the report of a run on it.
C15_Witness ==
    /\ pc = "doctor"
    /\ run.failed = {}
    /\ Cardinality(MissingPaths) = 1
    /\ Cardinality(ModifiedPaths) = 1
    /\ Cardinality(OrphanItems) = 1
    /\ \E p \in MissingPaths : Base(p) = SkillFile
    /\ \E p \in ModifiedPaths : Base(p) # SkillFile
    /\ \E d \in OrphanItems : d \in dirs
    /\ Len(IssuesOfKind("missing")) = 1
    /\ Len(IssuesOfKind("modified")) = 1
    /\ Len(IssuesOfKind("orphaned")) = 1

\* A diagnostics run has reported, and is at its prompt, in its repairs or
\* back at its caller.
DoctorReported ==
    /\ run.kind = "Doctor"
    /\ pc \in {"doctor", "fix", "done"}
    /\ run.outcome # "error"

\* C16: every record whose file is missing gets an issue that is fixable and
\* whose repair removes the record at that path and no other record; every
\* record whose file hashes differently gets a warning that is not fixable,
\* carries no repair and is not among the repairs offered, so that the file
\* and its record are as they were when the run and its repairs are over;
\* and only an I/O error or a kill, never a finding, makes the run end other
\* than normally.
C16_MissingFixableModifiedAdvisory ==
    /\ (pc = "doctor" /\ run.failed = {}) =>
          /\ IssuePaths("missing") = MissingPaths
          /\ IssuePaths("modified") = ModifiedPaths
    /\ DoctorReported =>
          /\ \A issue \in Range(IssuesOfKind("missing")) :
                /\ issue.CanFix
                /\ issue.Fix = [tag |-> "deregister", path |-> issue.Path,
                                isDir |-> FALSE]
                /\ before[issue.Path] = "missing"
          /\ \A issue \in Range(IssuesOfKind("modified")) :
                /\ issue.Type = "warning"
                /\ ~issue.CanFix
                /\ issue.Fix = NoFix
                /\ issue \notin Range(fixQueue)
                /\ issue.Path \in ModifiedPaths
          /\ \A p \in run.dereg :
                /\ p \in IssuePaths("missing")
                /\ ~Tracked(Load(doc), p)
          /\ \A p \in AllPaths \ run.dereg :
                Tracked(Load(doc), p) <=> before[p] # "untracked"
    /\ (run.kind = "Doctor" /\ pc = "done" /\ run.outcome # "ok") => env > 0

\* A run that reported a missing and a modified file has deregistered the
\* missing one and returned.
C16_Witness ==
    /\ run.kind = "Doctor"
    /\ pc = "done"
    /\ run.outcome = "ok"
    /\ run.dereg # {}
    /\ run.dereg = IssuePaths("missing")
    /\ IssuesOfKind("modified") # << >>

\* C17: the orphaned issues of a run name exactly the ccf- items of the
\* commands, agents and skills directories of the user root and of the
\* project root that have no record; each of them is fixable; its repair is
\* os.Remove of the file for a command or an agent and os.RemoveAll of the
\* directory for a skill, and a repair that ran has left nothing of the item;
\* no issue names an item that has a record.
C17_OrphansAreItemsWithoutRecord ==
    /\ pc = "doctor" => IssuePaths("orphaned") = OrphanItems
    /\ DoctorReported =>
          /\ \A issue \in Range(IssuesOfKind("orphaned")) :
                /\ issue.CanFix
                /\ issue.Fix.tag = "removeOrphan"
                /\ issue.Fix.path = issue.Path
                /\ issue.Fix.isDir <=> Base(Dir(issue.Path)) = <<"skills">>
                /\ \A p \in AllPaths :
                      TargetOf(p) = issue.Path => before[p] = "untracked"
                /\ \E m \in Modes, t \in Types :
                      Dir(issue.Path) = GetTypeDir(m, t)
          /\ \A item \in run.deleted :
                /\ item \in IssuePaths("orphaned")
                /\ item \notin dirs
                /\ \A p \in AllPaths : IsPrefix(item, p) => ~Exists(files, p)

\* A run found a skill directory without a record under the project root and
\* a file without a record under the user root, and deleted both.
C17_Witness ==
    /\ run.kind = "Doctor"
    /\ pc = "done"
    /\ run.outcome = "ok"
    /\ \E item \in run.deleted :
          /\ IsPrefix(GetClaudeCodeDir("project"), item)
          /\ Base(Dir(item)) = <<"skills">>
    /\ \E item \in run.deleted :
          /\ IsPrefix(GetClaudeCodeDir("user"), item)
          /\ Base(Dir(item)) # <<"skills">>
    /\ run.deleted = IssuePaths("orphaned")

\* What ~/.claude.json shows, read without doctor.
ConfigDefect ==
    IF ~Exists(files, ClaudeConfigPath) THEN "absent"
    ELSE IF ClaudeConfigPath \in run.failed THEN "unreadable"
    ELSE IF files[ClaudeConfigPath] = InvalidJson THEN "invalid"
    ELSE IF files[ClaudeConfigPath] = LargeJson THEN "large"
    ELSE "none"

ConfigIssues ==
    SelectSeq(report.Issues, LAMBDA issue : issue.Category = <<"config">>)

ConfigReported ==
    IF ConfigDefect = "none" THEN ConfigIssues = << >>
    ELSE /\ Len(ConfigIssues) = 1
         /\ ConfigIssues[1].Kind = ConfigDefect
         /\ ~ConfigIssues[1].CanFix

IntegrityReported ==
    /\ IssuePaths("missing") = MissingPaths
    /\ IssuePaths("modified") = ModifiedPaths \ run.failed
    /\ IssuePaths("unreadable") \ {ClaudeConfigPath}
          = run.failed \ {ClaudeConfigPath}

OrphansReported == IssuePaths("orphaned") = OrphanItems

\* Run has returned, with a report or with an error, and nothing was
\* repaired since.
RunReturned ==
    /\ run.kind = "Doctor"
    /\ \/ pc = "doctor"
       \/ pc = "done" /\ run.outcome = "error"

\* C18 as stated: whatever happens in one check, the report of the run
\* holds the issues of all three checks.
C18_ChecksIndependent ==
    RunReturned => (ConfigReported /\ IntegrityReported /\ OrphansReported)

\* C18: a finding of one check, an error issue included, prevents no other
\* check: a run that returns a report holds the issues of all three.  A
\* run returns an error only when state.Load failed in a check; the report
\* then holds the issues of the checks before that one, none of the checks
\* after it, and no repair is offered.
C18_ChecksRunUntilLoadFails ==
    /\ (run.kind = "Doctor" /\ pc = "doctor") =>
          (ConfigReported /\ IntegrityReported /\ OrphansReported)
    /\ (run.kind = "Doctor" /\ pc = "done" /\ run.outcome = "error") =>
          /\ env > 0
          /\ run.failed = {}
          /\ ConfigReported
          /\ IssuesOfKind("orphaned") = << >>
          /\ \/ IntegrityReported
             \/ Len(report.Issues) = Len(ConfigIssues)
          /\ fixQueue = << >>

\* state.Load failed in detectConflicts on a machine with a defective
\* ~/.claude.json, a missing file and an item without a record: the report
\* holds the issues of the first two checks and no orphaned issue.
C18_Witness ==
    /\ run.kind = "Doctor"
    /\ pc = "done"
    /\ run.outcome = "error"
    /\ ConfigIssues # << >>
    /\ IssuesOfKind("missing") # << >>
    /\ OrphanItems # {}
    /\ IssuesOfKind("orphaned") = << >>

\* The repairs of the report that have run.
RepairsRun == run.fixed + run.fixFails

\* C19: once the user has accepted, the repair step takes the fixable issues
\* of the report (the missing and the orphaned ones) in order and runs the
\* repair of each, whether or not an earlier repair failed: while it runs,
\* the repairs that ran and the repairs still to run add up to the fixable
\* issues, and when it has returned, fixed + failed is their number.
C19_EveryRepairRuns ==
    /\ (run.kind = "Doctor" /\ pc \in {"doctor", "fix"}) =>
          /\ Len(FixableIssues(report))
                = Len(IssuesOfKind("missing")) + Len(IssuesOfKind("orphaned"))
          /\ RepairsRun + Len(fixQueue) = Len(FixableIssues(report))
          /\ fixQueue = SubSeq(FixableIssues(report), RepairsRun + 1,
                               Len(FixableIssues(report)))
    /\ (run.kind = "Doctor" /\ pc = "done" /\ run.outcome = "ok"
          /\ RepairsRun > 0) =>
          /\ RepairsRun = Len(FixableIssues(report))
          /\ Cardinality(run.dereg) + Cardinality(run.deleted) = run.fixed

\* The first repair of three failed, and the two after it ran and succeeded.
C19_Witness ==
    /\ run.kind = "Doctor"
    /\ pc = "done"
    /\ run.outcome = "ok"
    /\ Len(FixableIssues(report)) = 3
    /\ run.fixFails = 1
    /\ run.fixed = 2
    /\ FixableIssues(report)[1].Path \notin run.dereg \cup run.deleted

\* The path is one diagnostics reports as modified: the records hold a
\* record at it, the file exists and its bytes hash differently.
Modified(insts, fs, path) ==
    /\ Exists(fs, path)
    /\ \E i \in RecordsAt(insts, path) : insts[i].Hash # calculateHash(fs[path])

NextTargetModified ==
    /\ pc = "install"
    /\ queue # << >>
    /\ Modified(st, files, InstalledPath(Head(queue), mode))

C21_LoadAbsentOrFail ==
    [][/\ (doc = CorruptDocument /\ run'.kind # "External") =>
             /\ doc' = doc
             /\ files' = files
             /\ dirs' = dirs
             /\ st' = EmptyState
             /\ pc' \in {"idle", "installAll", "done"}
             /\ (pc \in {"idle", "installAll"} /\ pc' = "done") =>
                   run'.outcome \in {"error", "loadError", "killed"}
       /\ (~doc.exists /\ pc' \in {"install", "remove"}
              /\ pc \in {"idle", "preview", "done", "installAll"}) =>
             st' = EmptyState
       /\ (~doc.exists /\ doc'.exists /\ doc' # CorruptDocument) =>
             doc'.version = Version]_vars

\* Files were installed, the State document was corrupted, and the install
\* that followed has returned the load error.
C21_Witness ==
    /\ pc = "done"
    /\ run.kind \in InstallKinds
    /\ run.outcome = "loadError"
    /\ doc = CorruptDocument
    /\ \E p \in AllPaths : Exists(files, p)

(***************************************************************************)
(* The State document as JSON (pkg/state, Load and Save).  Here st is the  *)
(* Go value *State: the version, the Installations slice and whether the   *)
(* slice is nil; doc is the document with the JSON text Save wrote; run is *)
(* the history of the Add and Remove calls.  A time.Time is its wall       *)
(* instant plus the monotonic reading that time.Now() attaches.            *)
(***************************************************************************)
MaxStateOps == 3

\* The version of the pre-release, written by an older foundry.
PreReleaseVersion == "0.1.0"

Now(t) == [wall |-> t, mono |-> TRUE]

\* time.Time.MarshalJSON writes the RFC 3339 text of the wall instant.
MarshalTime(t) == <<"rfc3339", t.wall>>

\* time.Time.UnmarshalJSON: the instant, without a monotonic reading.
UnmarshalTime(j) == [wall |-> j[2], mono |-> FALSE]

\* Load, lines 41-46: the State of a machine without a document.
NewState == [Version |-> Version, Installations |-> << >>, IsNil |-> FALSE]

StateAdd(s, category, fileType, filename, installedPath, content, now) ==
    [s EXCEPT !.Installations =
                  AddInstallation(@, category, fileType, filename,
                                  installedPath, content, Now(now)),
              !.IsNil = FALSE]

\* RemoveInstallation appends to a nil slice: nil when nothing is kept.
StateRemove(s, installedPath) ==
    LET filtered == StateRemoveInstallation(s.Installations, installedPath)
    IN  [s EXCEPT !.Installations = filtered, !.IsNil = (filtered = << >>)]

MarshalInstallation(inst) ==
    [category       |-> inst.Category,
     type           |-> inst.Type,
     file           |-> inst.File,
     installed_path |-> inst.InstalledPath,
     hash           |-> inst.Hash,
     installed_at   |-> MarshalTime(inst.InstalledAt)]

UnmarshalInstallation(j) ==
    [Category      |-> j.category,
     Type          |-> j.type,
     File          |-> j.file,
     InstalledPath |-> j.installed_path,
     Hash          |-> j.hash,
     InstalledAt   |-> UnmarshalTime(j.installed_at)]

\* Marshal that writes the version of the running program.
MarshalCurrentVersion(s) ==
    [version       |-> Version,
     null          |-> s.IsNil,
     installations |-> [i \in 1..Len(s.Installations) |->
                           MarshalInstallation(s.Installations[i])]]

\* json.MarshalIndent of a State: a nil slice is written as null.
Marshal(s) ==
    [version       |-> s.Version,
     null          |-> s.IsNil,
     installations |-> [i \in 1..Len(s.Installations) |->
                           MarshalInstallation(s.Installations[i])]]

\* json.Unmarshal into a zero State: null leaves the slice nil.
Unmarshal(j) ==
    [Version       |-> j.version,
     Installations |-> [i \in 1..Len(j.installations) |->
                           UnmarshalInstallation(j.installations[i])],
     IsNil         |-> j.null]

StateSave(s) == [exists |-> TRUE, decodes |-> TRUE, json |-> Marshal(s)]

StateLoad(d) == IF d.exists THEN Unmarshal(d.json) ELSE NewState

\* The JSON text of a document without records: "installations" is [] or
\* null.
EmptyJson(version, null) ==
    [version |-> version, null |-> null, installations |-> << >>]

AbsentDocument ==
    [exists |-> FALSE, decodes |-> TRUE, json |-> EmptyJson(Version, FALSE)]

\* The documents a machine starts with: none, or one without records that
\* this or the older foundry saved.
InitialDocuments ==
    {AbsentDocument} \cup
    {[exists |-> TRUE, decodes |-> TRUE, json |-> EmptyJson(v, n)] :
        v \in {Version, PreReleaseVersion}, n \in BOOLEAN}

StateInit ==
    /\ files = [p \in FilePaths |->
                    IF p = ClaudeConfigPath THEN UserContent ELSE NoFile]
    /\ dirs = Ancestors(Home) \cup Ancestors(Cwd)
    /\ doc \in InitialDocuments
    /\ st = StateLoad(doc)
    /\ pc = "loaded"
    /\ run = << >>
    /\ release = 1
    /\ mode = "user"
    /\ queue = << >>
    /\ catQueue = << >>
    /\ plan = NoPlan
    /\ report = NoReport
    /\ fixQueue = << >>
    /\ clock = 0
    /\ env = 0
    /\ before = NoStatus

StateFrame ==
    UNCHANGED <<files, dirs, release, mode, queue, catQueue, plan, report,
                fixQueue, env, before>>

StateAddStep(path) ==
    /\ clock < MaxStateOps
    /\ st' = StateAdd(st, EntryOf(path).Category, EntryOf(path).Type,
                      EntryOf(path).Filename, path,
                      ContentOf(EntryOf(path), release), clock + 1)
    /\ run' = Append(run, <<"AddInstallation", path>>)
    /\ clock' = clock + 1
    /\ pc' = "memory"
    /\ UNCHANGED doc
    /\ StateFrame

StateRemoveStep(path) ==
    /\ clock < MaxStateOps
    /\ st' = StateRemove(st, path)
    /\ run' = Append(run, <<"RemoveInstallation", path>>)
    /\ clock' = clock + 1
    /\ pc' = "memory"
    /\ UNCHANGED doc
    /\ StateFrame

StateSaveStep ==
    /\ pc = "memory"
    /\ doc' = StateSave(st)
    /\ pc' = "saved"
    /\ UNCHANGED <<st, run, clock>>
    /\ StateFrame

StateLoadStep ==
    /\ pc = "saved"
    /\ ~LoadFails(doc)
    /\ st' = StateLoad(doc)
    /\ pc' = "loaded"
    /\ UNCHANGED <<doc, run, clock>>
    /\ StateFrame

StateNext ==
    \/ \E p \in Range(InstallOrder) : StateAddStep(p)
    \/ \E p \in Range(InstallOrder) : StateRemoveStep(p)
    \/ StateSaveStep
    \/ StateLoadStep

StateSpec == StateInit /\ [][StateNext]_vars

\* Two records are equal when their fields are, the time as an instant
\* (time.Time.Equal).
RecordView(inst) == [inst EXCEPT !.InstalledAt = @.wall]

RecordViews(s) == {RecordView(inst) : inst \in Range(s.Installations)}

\* C22: Save followed by Load gives a State with an equal set of records
\* and the same version, for every State that Add and Remove calls reach,
\* one whose last record was just removed included; and the State that
\* Load returned is saved as the document it was loaded from.
C22_SaveLoadRoundTrip ==
    /\ ~LoadFails(StateSave(st))
    /\ RecordViews(StateLoad(StateSave(st))) = RecordViews(st)
    /\ Len(StateLoad(StateSave(st)).Installations) = Len(st.Installations)
    /\ StateLoad(StateSave(st)).Version = st.Version
    /\ (pc = "loaded" /\ doc.exists) => StateSave(st) = doc

\* The only record was added and removed again, the State saved and loaded;
\* the document is one the older foundry wrote first.
C22_Witness ==
    /\ pc = "loaded"
    /\ Len(run) = 2
    /\ run[1][1] = "AddInstallation"
    /\ run[2] = <<"RemoveInstallation", run[1][2]>>
    /\ st.IsNil
    /\ doc.json.null
    /\ st.Version = PreReleaseVersion

(***************************************************************************)
(* Placement of catalog entries (GenerateInstalledFilename, InstallFile    *)
(* lines 382-401, PreviewInstall).  The catalog is what the build embeds:  *)
(* here queue holds two entries of a catalog drawn from a few category and *)
(* file names, and run holds the paths that InstallFile and PreviewInstall *)
(* resolve for them.                                                       *)
(***************************************************************************)
PlacementCategories == {Development, OssDevelopment, <<"oss">>}

PlacementFilenames ==
    {<<"guide", ".md">>, <<"development", "guide", ".md">>,
     <<"oss", "auditor", ".md">>}

PlacementEntries ==
    [Category : PlacementCategories, Type : Types, Filename : PlacementFilenames]

NoPlacement == [kind |-> "Placement", installed |-> << >>, previewed |-> << >>]

PlacementInit ==
    /\ files = [p \in FilePaths |->
                    IF p = ClaudeConfigPath THEN UserContent ELSE NoFile]
    /\ dirs = Ancestors(Home) \cup Ancestors(Cwd)
    /\ doc = Save(EmptyState)
    /\ st = EmptyState
    /\ queue \in [1..2 -> PlacementEntries]
    /\ mode \in Modes
    /\ run = NoPlacement
    /\ pc = "idle"
    /\ release = 1
    /\ catQueue = << >>
    /\ plan = NoPlan
    /\ report = NoReport
    /\ fixQueue = << >>
    /\ clock = 0
    /\ env = 0
    /\ before = NoStatus

PlacementFrame ==
    UNCHANGED <<files, dirs, doc, st, queue, mode, pc, release, catQueue, plan,
                report, fixQueue, clock, env, before>>

\* InstallFile resolves the installed path of each entry.
PlaceInstall ==
    /\ run.installed = << >>
    /\ run' = [run EXCEPT !.installed =
                  [i \in 1..Len(queue) |-> InstalledPath(queue[i], mode)]]
    /\ PlacementFrame

\* PreviewInstall resolves the install path of each entry.
PlacePreview ==
    /\ run.previewed = << >>
    /\ run' = [run EXCEPT !.previewed =
                  [i \in 1..Len(queue) |-> PreviewPath(queue[i], mode)]]
    /\ PlacementFrame

PlacementNext == PlaceInstall \/ PlacePreview

PlacementSpec == PlacementInit /\ [][PlacementNext]_vars

\* C23: two entries of the same type that differ in the category or in the
\* original filename never resolve to the same installed path.
C23_DistinctEntriesDistinctPaths ==
    run.installed # << >> =>
        \A i, j \in 1..Len(queue) :
            (/\ queue[i].Type = queue[j].Type
             /\ <<queue[i].Category, queue[i].Filename>>
                    # <<queue[j].Category, queue[j].Filename>>)
            => run.installed[i] # run.installed[j]

\* The name and the root the placement rule is stated with.
PrefixedName(entry) ==
    <<"ccf">> \o entry.Category \o SubSeq(entry.Filename, 1, Len(entry.Filename) - 1)

PlacementRoot(m) ==
    IF m = "user" THEN Home \o << <<".claude">> >> ELSE Cwd \o << <<".claude">> >>

RulePath(entry, m) ==
    IF entry.Type = "skills"
    THEN PlacementRoot(m) \o << <<"skills">>, PrefixedName(entry), <<"SKILL", ".md">> >>
    ELSE PlacementRoot(m) \o << <<entry.Type>>, PrefixedName(entry) \o <<".md">> >>

\* C24: a skills entry resolves to <root>/skills/<prefixed-name>/SKILL.md and
\* every other entry to <root>/<type>/<prefixed-name>.md, where prefixed-name
\* is ccf-<category>-<filename without .md>; PreviewInstall and InstallFile
\* resolve the same path for the same entry.
C24_PlacementRule ==
    /\ run.installed # << >> =>
          \A i \in 1..Len(queue) : run.installed[i] = RulePath(queue[i], mode)
    /\ run.previewed # << >> =>
          \A i \in 1..Len(queue) : run.previewed[i] = RulePath(queue[i], mode)
    /\ (run.installed # << >> /\ run.previewed # << >>) =>
          run.previewed = run.installed

\* Both resolved a skills entry and a flat entry, at project level.
C24_Witness ==
    /\ run.installed # << >>
    /\ run.previewed # << >>
    /\ mode = "project"
    /\ queue[1].Type = "skills"
    /\ queue[2].Type = "agents"
    /\ Len(run.installed[1]) = Len(run.installed[2]) + 1

\* The request that the log records names a category that the catalog does
\* not hold, or a type that the category does not hold.
NotFoundRequest(log) ==
    \/ /\ log.kind = "InstallCategory"
       /\ log.cat \notin Categories \cup {AllCategories}
    \/ /\ log.kind = "InstallType"
       /\ \A i \in 1..Len(CatalogFS) :
             ~(CatalogFS[i].Category = log.cat /\ CatalogFS[i].Type = log.typ)

\* C25: an install request that names a category or a type absent from the
\* catalog returns an error in the step that makes it: no file is written,
\* no directory is created, nothing is saved and the State document is as it
\* was.
C25_NotFoundBeforeMutation ==
    [][(/\ pc \in {"idle", "preview", "done"}
        /\ run' # run
        /\ NotFoundRequest(run'))
       => /\ files' = files
          /\ dirs' = dirs
          /\ doc' = doc
          /\ pc' = "done"
          /\ run'.outcome = "error"
          /\ run'.written = {}
          /\ run'.mkdirs = {}
          /\ run'.saves = 0]_vars

\* A category that the catalog does not hold was requested on a machine
\* with installed files and records.
C25_Witness ==
    /\ pc = "done"
    /\ run.kind = "InstallCategory"
    /\ NotFoundRequest(run)
    /\ run.outcome = "error"
    /\ doc.exists
    /\ Len(doc.installations) > 0
    /\ \E p \in AllPaths : Exists(files, p)

\* The target paths of the files of a subset of the catalog.
SubsetPaths(category, fileType, m) ==
    {InstalledPath(e, m) : e \in SubsetEntries(category, fileType)}

RecordSetAt(insts, path) == {r \in Range(insts) : r.InstalledPath = path}

DocumentRecords(d) == IF d.exists /\ d.decodes THEN d.installations ELSE << >>

\* C26: every step of an install run of a subset leaves alone what is at a
\* path that is not the target path of a file of the subset: the file, the
\* records of the State document and, while the batch runs, the records of
\* the State in memory.  The plan of a subset lists target paths of the
\* subset only, and building it changes no file and no record.
C26_OutsideSubsetUntouched ==
    [][/\ run'.kind \in InstallKinds =>
            \A p \in AllPaths \ SubsetPaths(run'.cat, run'.typ, mode') :
                /\ files'[p] = files[p]
                /\ RecordSetAt(DocumentRecords(doc'), p)
                      = RecordSetAt(DocumentRecords(doc), p)
                /\ pc' = "install" =>
                      RecordSetAt(st', p) = RecordSetAt(DocumentRecords(doc'), p)
       /\ (pc = "idle" /\ pc' = "preview") =>
            /\ \A i \in 1..Len(plan'.changes) :
                  plan'.changes[i].Path
                      \in SubsetPaths(plan'.category, plan'.fileType, mode')
            /\ files' = files
            /\ doc' = doc]_vars

\* An install run of a subset wrote files and saved, on a machine that has a
\* tracked file outside the subset.
C26_Witness ==
    /\ pc = "done"
    /\ run.kind \in InstallKinds
    /\ run.outcome = "ok"
    /\ run.written # {}
    /\ \E p \in AllPaths \ SubsetPaths(run.cat, run.typ, mode) :
          /\ Exists(files, p)
          /\ RecordSetAt(DocumentRecords(doc), p) # {}

(***************************************************************************)
(* Two invocations of foundry at the same time, each an InstallCategory    *)
(* call (lines 446-496) in its own process: st, queue, mode, pc and the    *)
(* log run are per process; the file system and the State document are     *)
(* shared.  Save is os.WriteFile, which truncates the document and then    *)
(* writes it: a Load in between reads a text that does not decode, and two *)
(* writers at once can leave one.  clock orders the Load and Save calls.   *)
(***************************************************************************)
Procs == {1, 2}

NoInvocation ==
    [cat |-> AllCategories, outcome |-> "none", loadedAt |-> 0, savedAt |-> 0,
     written |-> {}]

RaceInit ==
    /\ files = [p \in FilePaths |->
                    IF p = ClaudeConfigPath THEN UserContent ELSE NoFile]
    /\ dirs = Ancestors(Home) \cup Ancestors(Cwd)
    /\ doc \in {[exists |-> FALSE, decodes |-> TRUE, version |-> Version,
                 installations |-> << >>],
                Save(EmptyState)}
    /\ st = [i \in Procs |-> EmptyState]
    /\ queue = [i \in Procs |-> << >>]
    /\ mode = [i \in Procs |-> "user"]
    /\ pc = [i \in Procs |-> "idle"]
    /\ run = [i \in Procs |-> NoInvocation]
    /\ clock = 0
    /\ release = 1
    /\ catQueue = << >>
    /\ plan = NoPlan
    /\ report = NoReport
    /\ fixQueue = << >>
    /\ env = 0
    /\ before = NoStatus

RaceFrame ==
    UNCHANGED <<release, catQueue, plan, report, fixQueue, env, before>>

\* InstallCategory up to state.Load (lines 446-469).
RaceInstallCategory(i, category, m) ==
    /\ pc[i] = "idle"
    /\ Len(ListCategoryFiles(category, release)) > 0
    /\ clock' = clock + 1
    /\ mode' = [mode EXCEPT ![i] = m]
    /\ IF LoadFails(doc)
       THEN /\ pc' = [pc EXCEPT ![i] = "done"]
            /\ run' = [run EXCEPT ![i] =
                          [NoInvocation EXCEPT !.cat = category,
                                               !.outcome = "loadError",
                                               !.loadedAt = clock + 1,
                                               !.savedAt = clock + 1]]
            /\ UNCHANGED <<st, queue>>
       ELSE /\ st' = [st EXCEPT ![i] = Load(doc)]
            /\ queue' = [queue EXCEPT ![i] = ListCategoryFiles(category, release)]
            /\ pc' = [pc EXCEPT ![i] = "install"]
            /\ run' = [run EXCEPT ![i] =
                          [NoInvocation EXCEPT !.cat = category,
                                               !.outcome = "running",
                                               !.loadedAt = clock + 1]]
    /\ UNCHANGED <<files, dirs, doc>>
    /\ RaceFrame

\* InstallFile on the next entry of the batch of process i (lines 370-443).
RaceInstallFile(i) ==
    /\ pc[i] = "install"
    /\ queue[i] # << >>
    /\ LET file   == Head(queue[i])
           path   == InstalledPath(file, mode[i])
           action == InstallFileAction(st[i], file, path)
       IN  /\ dirs' = InstallFileDirs(dirs, file, mode[i])
           /\ queue' = [queue EXCEPT ![i] = Tail(@)]
           /\ IF action = "skip"
              THEN UNCHANGED <<files, st, run>>
              ELSE /\ files' = InstallFileWrite(files, file, path)
                   /\ st' = [st EXCEPT ![i] =
                                InstallFileRecord(@, file, path, clock)]
                   /\ run' = [run EXCEPT ![i].written =
                                 @ \cup {<<path, file.Content>>}]
    /\ UNCHANGED <<doc, mode, pc, clock>>
    /\ RaceFrame

\* st.Save (line 486), os.WriteFile opening the document: it is truncated.
RaceSaveOpens(i) ==
    /\ pc[i] = "install"
    /\ queue[i] = << >>
    /\ doc' = CorruptDocument
    /\ pc' = [pc EXCEPT ![i] = "saving"]
    /\ UNCHANGED <<files, dirs, st, queue, mode, run, clock>>
    /\ RaceFrame

\* os.WriteFile has written the document; torn: another process was writing
\* it too and the bytes of the two do not make a JSON text.
RaceSaveWrites(i, torn) ==
    /\ pc[i] = "saving"
    /\ torn => \E j \in Procs \ {i} : pc[j] = "saving"
    /\ doc' = IF torn THEN CorruptDocument ELSE Save(st[i])
    /\ pc' = [pc EXCEPT ![i] = "done"]
    /\ clock' = clock + 1
    /\ run' = [run EXCEPT ![i].outcome = "ok", ![i].savedAt = clock + 1]
    /\ UNCHANGED <<files, dirs, st, queue, mode>>
    /\ RaceFrame

RaceNext ==
    \/ \E i \in Procs, c \in Categories, m \in Modes : RaceInstallCategory(i, c, m)
    \/ \E i \in Procs : RaceInstallFile(i)
    \/ \E i \in Procs : RaceSaveOpens(i)
    \/ \E i \in Procs, torn \in BOOLEAN : RaceSaveWrites(i, torn)

RaceSpec == RaceInit /\ [][RaceNext]_vars

RaceDone == \A i \in Procs : pc[i] = "done"

\* The invocations overlap: each loaded before the other had saved.
Overlapped ==
    /\ run[1].loadedAt < run[2].savedAt
    /\ run[2].loadedAt < run[1].savedAt

\* The files an invocation wrote that the State document has no record of.
LostRecords(i) ==
    {w \in run[i].written : RecordSetAt(DocumentRecords(doc), w[1]) = {}}

\* C27: when both invocations have returned, every file that one of them
\* wrote is on disk with the written content; a written file is without its
\* record in the State document only when the invocations overlapped, and
\* when they did not overlap the document holds exactly one record, with the
\* hash of the written content, for every written file.
C27_LostOnlyWhenInterleaved ==
    RaceDone =>
        /\ \A i \in Procs : \A w \in run[i].written : files[w[1]] = w[2]
        /\ (\E i \in Procs : LostRecords(i) # {}) => Overlapped
        /\ ~Overlapped =>
              \A i \in Procs : \A w \in run[i].written :
                  HoldsRecord(DocumentRecords(doc), w[1], calculateHash(w[2]))

\* Lost update: both invocations saved a State that decodes, and a file that
\* one of them wrote is on disk without a record.
C27_Witness ==
    /\ RaceDone
    /\ Overlapped
    /\ doc.decodes
    /\ \A i \in Procs : run[i].outcome = "ok"
    /\ \E i \in Procs : \E w \in LostRecords(i) : Exists(files, w[1])

\* C28: an install or remove operation that returned an error has left the
\* files, the directories and the State document as they were when it was
\* called.
C28_RolledBackOnFailure ==
    (/\ pc = "done"
     /\ run.kind \in InstallKinds \cup RemoveKinds
     /\ run.outcome \in {"error", "loadError"})
    => /\ files = run.start.files
       /\ dirs = run.start.dirs
       /\ doc = run.start.doc

\* The paths whose file a step deletes.
DeletedByStep == {p \in FilePaths : Exists(files, p) /\ ~Exists(files', p)}

\* The record matches the remove request of the log, in the install mode.
MatchesRequest(r, log, m) ==
    /\ IsPrefix(GetClaudeCodeDir(m), r.InstalledPath)
    /\ log.cat = AllCategories \/ r.Category = log.cat
    /\ log.typ = AnyType \/ r.Type = log.typ

EditedRecord ==
    [Category      |-> Development,
     Type          |-> "agents",
     File          |-> <<"settings", ".md">>,
     InstalledPath |-> ClaudeConfigPath,
     Hash          |-> calculateHash(1),
     InstalledAt   |-> 0]

EditedInit ==
    /\ files = [p \in FilePaths |->
                    IF p = ClaudeConfigPath THEN UserContent ELSE NoFile]
    /\ dirs = Ancestors(Home) \cup Ancestors(Cwd)
    /\ doc \in {Save(EmptyState), Save(<<EditedRecord>>)}
    /\ release = 1
    /\ mode = "user"
    /\ st = EmptyState
    /\ pc = "idle"
    /\ queue = << >>
    /\ catQueue = << >>
    /\ plan = NoPlan
    /\ report = NoReport
    /\ fixQueue = << >>
    /\ clock = 0
    /\ env = 0
    /\ run = NoRun
    /\ before = NoStatus

EditedSpec == EditedInit /\ [][Next]_vars

\* The commands, agents and skills directories of the two roots.
DesignatedDirs == {GetTypeDir(m, t) : m \in Modes, t \in Types}

\* A file or directory inside a designated directory.
InsideDesignated(path) ==
    \E d \in DesignatedDirs : IsPrefix(d, path) /\ path # d

\* A directory that holds a designated directory, or is one.
HoldsDesignated(dir) == \E d \in DesignatedDirs : IsPrefix(dir, d)

\* C30: every file that a step of an install run, a remove run or a doctor
\* repair writes or deletes, and every directory it creates or deletes, lies
\* inside the commands, agents or skills directory of ~/.claude or of
\* <cwd>/.claude (the directories it creates on the way to these included).
C30_OnlyDesignatedDirectories ==
    [][run'.kind \in InstallKinds \cup RemoveKinds \cup {"Doctor"} =>
          /\ \A p \in FilePaths : files'[p] # files[p] => InsideDesignated(p)
          /\ \A d \in (dirs' \ dirs) \cup (dirs \ dirs') :
                InsideDesignated(d) \/ HoldsDesignated(d)]_vars

(***************************************************************************)
(* The interactive flows: a preview, its confirmation, the run.            *)
(***************************************************************************)
\* The run in progress, or the one that has just returned, was called from
\* a preview the user confirmed.
RunOfConfirmedPreview ==
    /\ pc \in {"install", "remove", "done"}
    /\ plan # NoPlan

\* The confirmed preview showed a change at the path: an install or an update
\* of the file at the path, or the removal of a record whose file is the path
\* or whose skill directory holds it.
PreviewedFileChange(path) ==
    \/ \E i \in 1..Len(plan.changes) :
          /\ plan.changes[i].Path = path
          /\ plan.changes[i].Action \in {"install", "update"}
    \/ \E i \in 1..Len(plan.removals) :
          IsPrefix(RemoveInstallationTarget(plan.removals[i]), path)

PreviewedRecordChange(path) ==
    \/ \E i \in 1..Len(plan.changes) :
          /\ plan.changes[i].Path = path
          /\ plan.changes[i].Action \in {"install", "update"}
    \/ \E i \in 1..Len(plan.removals) :
          plan.removals[i].InstalledPath = path

PlannedChange(file) ==
    plan.changes[CHOOSE i \in 1..Len(plan.changes) : plan.changes[i].File = file]

\* C32: the plan and the installer agree.  In a run called from a confirmed
\* preview, every InstallFile step handles a file the plan lists, at the path
\* the plan shows, and does what the plan says: on "skip" it writes no file
\* and changes no record; on "install" and "update" it calls os.WriteFile
\* and, when the write succeeds, the file holds the catalog content, the State
\* holds exactly one record at the path, with the hash of that content, and
\* the entry is counted as the plan counted it; when the write fails the run
\* ends with the error.
C32_PlanAndInstallerAgree ==
    [][(/\ pc = "install"
        /\ plan # NoPlan
        /\ run'.tried = run.tried + 1) =>
          LET file   == Head(queue)
              path   == InstalledPath(file, mode)
              change == PlannedChange(file)
          IN  /\ \E i \in 1..Len(plan.changes) : plan.changes[i].File = file
              /\ change.Path = path
              /\ change.Action = "skip" =>
                    /\ files' = files
                    /\ st' = st
                    /\ run'.skips = run.skips + 1
                    /\ run'.written = run.written
              /\ change.Action \in {"install", "update"} =>
                    \/ /\ files'[path] = file.Content
                       /\ \A p \in FilePaths \ {path} : files'[p] = files[p]
                       /\ Cardinality(RecordSetAt(st', path)) = 1
                       /\ \A r \in RecordSetAt(st', path) :
                             /\ r.Hash = calculateHash(file.Content)
                             /\ r \notin Range(st)
                       /\ \A p \in FilePaths \ {path} :
                             RecordSetAt(st', p) = RecordSetAt(st, p)
                       /\ run'.skips = run.skips
                       /\ run'.installs = run.installs
                             + (IF change.Action = "install" THEN 1 ELSE 0)
                       /\ run'.updates = run.updates
                             + (IF change.Action = "update" THEN 1 ELSE 0)
                    \/ /\ run'.outcome = "error"
                       /\ path \in run'.failed
                       /\ pc' = "done"]_vars

\* A confirmed plan with an update and a skip has been carried out: the
\* installer updated and skipped as many entries as the plan counted.
C32_Witness ==
    /\ pc = "done"
    /\ run.kind \in InstallKinds
    /\ run.outcome = "ok"
    /\ plan.updateCount > 0
    /\ plan.skipCount > 0
    /\ run.updates = plan.updateCount
    /\ run.skips = plan.skipCount
    /\ run.installs = plan.installCount

\* C33: when an install run of a catalog subset has returned without error,
\* every file of the subset is on disk at its target path with the catalog
\* content of the release, whatever happened to the installed files since
\* the earlier runs.
C33_SubsetOnDiskAfterInstall ==
    (InstallReturned /\ run.outcome = "ok") =>
        \A e \in SubsetEntries(run.cat, run.typ) :
            files[InstalledPath(e, mode)] = ContentOf(e, run.rel)

(***************************************************************************)
(* The working directory.  Spec runs the program in one working directory, *)
(* Cwd.  WorkdirSpec starts it in each of a few: an ordinary project       *)
(* directory, the home directory itself (~/.claude is then the per-user    *)
(* and the per-project root), a directory next to ~/.claude whose name     *)
(* begins with ".claude", and ~/.claude itself.  Every catalog file is, in *)
(* either install mode, not installed, installed (file and record) or      *)
(* orphaned (file without record); one operation then runs: a remove in    *)
(* one install mode, or diagnostics.  run holds the working directory and  *)
(* the request.                                                            *)
(***************************************************************************)
SiblingOfUserRoot == Home \o << <<".claude", "backup">> >>

WorkingDirs == {Cwd, Home, SiblingOfUserRoot, Home \o << <<".claude">> >>}

\* GetClaudeCodeDir, lines 314-332, when os.Getwd returns cwd.
GetClaudeCodeDirIn(cwd, m) ==
    IF m = "project" THEN cwd \o << <<".claude">> >>
    ELSE Home \o << <<".claude">> >>

\* InstalledPath (InstallFile, lines 376-401) when os.Getwd returns cwd.
InstalledPathIn(cwd, file, m) ==
    LET path == InstalledPath(file, m)
    IN  GetClaudeCodeDirIn(cwd, m)
            \o SubSeq(path, Len(GetClaudeCodeDir(m)) + 1, Len(path))

\* pathMatchesInstallMode, lines 547-568, when os.Getwd returns cwd.
pathMatchesInstallModeIn(cwd, installPath, m) ==
    IF m = "user" THEN HasPrefix(installPath, Home \o << <<".claude">> >>)
    ELSE HasPrefix(installPath, cwd \o << <<".claude">> >>)

\* ListInstallationsForCurrentMode, lines 571-582, when os.Getwd returns cwd.
ListInstallationsIn(cwd, insts, category, fileType, m) ==
    SelectSeq(ListInstallations(insts, category, fileType),
              LAMBDA inst : pathMatchesInstallModeIn(cwd, inst.InstalledPath, m))

\* The loops of RemoveCategory, RemoveType and RemoveAll (lines 703-708,
\* 740-745, 775-781) when every delete succeeds.
RECURSIVE RemoveLoopFiles(_, _)
RemoveLoopFiles(fs, installations) ==
    IF installations = << >> THEN fs
    ELSE RemoveLoopFiles(RemoveInstallationFiles(fs, Head(installations)),
                         Tail(installations))

RECURSIVE RemoveLoopDirs(_, _)
RemoveLoopDirs(ds, installations) ==
    IF installations = << >> THEN ds
    ELSE RemoveLoopDirs(RemoveInstallationDirs(ds, Head(installations)),
                        Tail(installations))

RECURSIVE RemoveLoopState(_, _)
RemoveLoopState(insts, installations) ==
    IF installations = << >> THEN insts
    ELSE RemoveLoopState(
            StateRemoveInstallation(insts, Head(installations).InstalledPath),
            Tail(installations))

\* detectConflicts, lines 187-222, when os.Getwd returns cwd.
detectConflictsIn(cwd, insts, fs, ds, rep) ==
    LET managedPaths == {insts[i].InstalledPath : i \in 1..Len(insts)}
        user == detectConflictsInDir(GetClaudeCodeDirIn(cwd, "user"),
                                     managedPaths, fs, ds, rep)
    IN  IF IsDir(ds, GetClaudeCodeDirIn(cwd, "project"))
        THEN detectConflictsInDir(GetClaudeCodeDirIn(cwd, "project"),
                                  managedPaths, fs, ds, user)
        ELSE user

\* The catalog files in the two install modes, in the order they are given a
\* status.
WorkdirTargets ==
    [i \in 1..(2 * Len(CatalogFS)) |->
        IF i <= Len(CatalogFS) THEN [file |-> CatalogFS[i], mode |-> "user"]
        ELSE [file |-> CatalogFS[i - Len(CatalogFS)], mode |-> "project"]]

TargetPath(cwd, i) ==
    InstalledPathIn(cwd, WorkdirTargets[i].file, WorkdirTargets[i].mode)

WorkdirPaths ==
    {TargetPath(cwd, i) : cwd \in WorkingDirs, i \in DOMAIN WorkdirTargets}
        \cup {ClaudeConfigPath}

\* The records of the targets that are installed, one for a path.
RECURSIVE WorkdirRecords(_, _, _)
WorkdirRecords(cwd, status, i) ==
    IF i = 0 THEN EmptyState
    ELSE LET earlier == WorkdirRecords(cwd, status, i - 1)
             file    == WorkdirTargets[i].file
         IN  IF status[i] = "installed" /\ FindIndex(earlier, TargetPath(cwd, i)) = 0
             THEN AddInstallation(earlier, file.Category, file.Type,
                                  file.Filename, TargetPath(cwd, i),
                                  ContentOf(file, 1), 0)
             ELSE earlier

NoRequest == [kind |-> "none", cat |-> AllCategories, typ |-> AnyType]

WorkdirInit ==
    \E cwd \in WorkingDirs :
    \E status \in [DOMAIN WorkdirTargets -> {"absent", "installed", "orphaned"}] :
        /\ \A i, j \in DOMAIN WorkdirTargets :
              TargetPath(cwd, i) = TargetPath(cwd, j) => status[i] = status[j]
        /\ files = [p \in WorkdirPaths |->
                       IF p = ClaudeConfigPath THEN UserContent
                       ELSE IF \E i \in DOMAIN WorkdirTargets :
                                  /\ TargetPath(cwd, i) = p
                                  /\ status[i] # "absent"
                       THEN 1
                       ELSE NoFile]
        /\ dirs = Ancestors(Home) \cup Ancestors(cwd)
                    \cup UNION {Ancestors(Dir(TargetPath(cwd, i))) :
                                  i \in {j \in DOMAIN WorkdirTargets :
                                            status[j] # "absent"}}
        /\ doc = Save(WorkdirRecords(cwd, status, Len(WorkdirTargets)))
        /\ run = [NoRequest EXCEPT !.kind = "Workdir"] @@ [cwd |-> cwd]
        /\ release = 1
        /\ mode = "user"
        /\ st = EmptyState
        /\ pc = "idle"
        /\ queue = << >>
        /\ catQueue = << >>
        /\ plan = NoPlan
        /\ report = NoReport
        /\ fixQueue = << >>
        /\ clock = 0
        /\ env = 0
        /\ before = NoStatus

\* RemoveCategory, RemoveType or RemoveAll (lines 682-720, 723-753, 756-789)
\* in install mode m, every delete succeeding.
WorkdirRemove(kind, category, fileType, m) ==
    LET installations ==
            ListInstallationsIn(run.cwd, Load(doc), category, fileType, m)
    IN  /\ pc = "idle"
        /\ pc' = "done"
        /\ mode' = m
        /\ run' = [run EXCEPT !.kind = kind, !.cat = category, !.typ = fileType]
        /\ IF Len(installations) = 0
           THEN UNCHANGED <<files, dirs, doc>>
           ELSE /\ files' = RemoveLoopFiles(files, installations)
                /\ dirs' = RemoveLoopDirs(dirs, installations)
                /\ doc' = Save(RemoveLoopState(Load(doc), installations))
        /\ UNCHANGED <<release, st, queue, catQueue, plan, report, fixQueue,
                       clock, env, before>>

\* doctor.Run (lines 36-65) with every check succeeding.
WorkdirDoctor ==
    /\ pc = "idle"
    /\ pc' = "done"
    /\ run' = [run EXCEPT !.kind = "Doctor"]
    /\ report' =
          detectConflictsIn(run.cwd, Load(doc), files, dirs,
             checkFileIntegrity(Load(doc), files, NoPath,
                checkClaudeConfig(files, NoPath, NoReport)))
    /\ UNCHANGED <<files, dirs, doc, release, mode, st, queue, catQueue, plan,
                   fixQueue, clock, env, before>>

WorkdirNext ==
    \/ \E c \in Categories, m \in Modes :
          WorkdirRemove("RemoveCategory", c, AnyType, m)
    \/ \E c \in Categories, t \in Types, m \in Modes :
          WorkdirRemove("RemoveType", c, t, m)
    \/ \E m \in Modes : WorkdirRemove("RemoveAll", AllCategories, AnyType, m)
    \/ WorkdirDoctor

WorkdirSpec == WorkdirInit /\ [][WorkdirNext]_vars

OtherMode(m) == IF m = "user" THEN "project" ELSE "user"

\* C34: a remove in an install mode deregisters only records under the root
\* of that mode (~/.claude in user mode, <cwd>/.claude in project mode) and
\* changes only files under it; every record under the root of the other
\* mode stays in the State document and its file stays as it was; in every
\* working directory.
C34_RemoveScopedToMode ==
    [][(pc = "idle" /\ run'.kind \in RemoveKinds) =>
          LET root  == GetClaudeCodeDirIn(run.cwd, mode')
              other == GetClaudeCodeDirIn(run.cwd, OtherMode(mode'))
          IN  /\ \A r \in Range(Load(doc)) \ Range(Load(doc')) :
                    IsPrefix(root, r.InstalledPath)
              /\ \A p \in DOMAIN files :
                    files'[p] # files[p] => IsPrefix(root, p)
              /\ \A r \in Range(Load(doc)) :
                    IsPrefix(other, r.InstalledPath) =>
                        /\ r \in Range(Load(doc'))
                        /\ files'[r.InstalledPath] = files[r.InstalledPath]]_vars

\* The ccf- items without a record in the type directories of the per-user
\* root and of the per-project root of the working directory, read without
\* doctor: files of commands and agents, directories of skills.
OrphanItemsIn(cwd) ==
    {IF Base(p) = SkillFile THEN Dir(p) ELSE p :
        p \in {q \in WorkdirPaths \ {ClaudeConfigPath} :
                  /\ \E m \in Modes : IsPrefix(GetClaudeCodeDirIn(cwd, m), q)
                  /\ FindIndex(Load(doc), q) = 0
                  /\ IF Base(q) = SkillFile THEN Dir(q) \in dirs
                     ELSE Exists(files, q)}}

OrphanIssuesAt(item) ==
    {i \in 1..Len(report.Issues) :
        report.Issues[i].Kind = "orphaned" /\ report.Issues[i].Path = item}

\* C35: a diagnostics run reports each orphaned item exactly once, and
\* OrphanedFiles is the number of distinct orphaned items on disk, also when
\* the per-user root and the per-project root are the same directory.
C35_OrphansReportedOnce ==
    (pc = "done" /\ run.kind = "Doctor") =>
        /\ report.OrphanedFiles = Cardinality(OrphanItemsIn(run.cwd))
        /\ \A item \in OrphanItemsIn(run.cwd) :
              Cardinality(OrphanIssuesAt(item)) = 1
        /\ \A i \in 1..Len(report.Issues) :
              report.Issues[i].Kind = "orphaned" =>
                  report.Issues[i].Path \in OrphanItemsIn(run.cwd)

\* The repair step of the run has been taken to its end and every repair
\* succeeded.
AllRepairsSucceeded ==
    /\ pc = "done"
    /\ run.kind = "Doctor"
    /\ run.outcome = "ok"
    /\ run.fixFails = 0
    /\ run.fixed = Len(FixableIssues(report))

\* The report of a diagnostics run made now, in which nothing fails.
SecondReport == Run(doc, files, dirs, NoPath, "none").report

\* C36: when a diagnostics run was followed by the repair step and every
\* repair succeeded, a second diagnostics run reports no missing and no
\* orphaned issue, every record that was not missing is still in the State
\* document, and the modified files and their records are as they were.
C36_RepairConverges ==
    AllRepairsSucceeded =>
        /\ SecondReport.MissingFiles = 0
        /\ SecondReport.OrphanedFiles = 0
        /\ \A p \in AllPaths :
              before[p] \in {"installed", "modified"} =>
                  /\ RecordSetAt(Load(doc), p) = RecordSetAt(Load(run.start.doc), p)
                  /\ RecordSetAt(Load(doc), p) # {}
        /\ \A p \in AllPaths :
              before[p] = "modified" => files[p] = run.start.files[p]

\* C37: a diagnostics run without the repair step is read-only.  The step
\* that runs doctor.Run, whatever it finds and whether or not a check fails,
\* and the step in which the repair is declined or has nothing to repair,
\* change no record and do not write the State document, and create, modify
\* and delete no file and no directory, ~/.claude.json included.
C37_RunIsReadOnly ==
    [][(\/ pc = "idle" /\ run'.kind = "Doctor"
        \/ pc = "doctor" /\ pc' = "done") =>
          (/\ doc' = doc
           /\ st' = st
           /\ files' = files
           /\ dirs' = dirs)]_vars

\* A run has reported a missing file, an orphaned item and a defect of
\* ~/.claude.json, and everything is as it was when the run began.
C37_Witness ==
    /\ pc = "doctor"
    /\ report.MissingFiles > 0
    /\ report.OrphanedFiles > 0
    /\ \E i \in 1..Len(report.Issues) : report.Issues[i].Category = <<"config">>
    /\ files = run.start.files
    /\ dirs = run.start.dirs
    /\ doc = run.start.doc

\* A diagnostics run has made its report (it may be under repair, or have
\* returned).
ReportMade ==
    /\ run.kind = "Doctor"
    /\ pc \in {"doctor", "fix", "done"}

IssuesOfType(type) == SelectSeq(report.Issues, LAMBDA issue : issue.Type = type)

\* C38: in every report of a diagnostics run the counts agree with the list
\* of issues: Errors is the number of issues of type error and Warnings the
\* number of type warning, so that Errors + Warnings is the number of issues;
\* MissingFiles, ModifiedFiles and OrphanedFiles are the numbers of issues of
\* these kinds; MissingFiles + ModifiedFiles is at most FilesChecked; every
\* issue marked fixable carries a repair; and when Run returned no error,
\* FilesChecked is the number of records of the State the run loaded.
C38_CountsAgreeWithIssues ==
    ReportMade =>
        /\ report.Errors = Len(IssuesOfType("error"))
        /\ report.Warnings = Len(IssuesOfType("warning"))
        /\ report.Errors + report.Warnings = Len(report.Issues)
        /\ report.MissingFiles = Len(IssuesOfKind("missing"))
        /\ report.ModifiedFiles = Len(IssuesOfKind("modified"))
        /\ report.OrphanedFiles = Len(IssuesOfKind("orphaned"))
        /\ report.MissingFiles + report.ModifiedFiles <= report.FilesChecked
        /\ \A i \in 1..Len(report.Issues) :
              report.Issues[i].CanFix => report.Issues[i].Fix.tag # "none"
        /\ run.outcome # "error" =>
              report.FilesChecked = Len(Load(run.start.doc))

\* A report with issues of every kind: a warning about ~/.claude.json, a
\* missing file, a modified file and an orphaned item.
C38_Witness ==
    /\ pc = "doctor"
    /\ report.MissingFiles = 1
    /\ report.ModifiedFiles = 1
    /\ report.OrphanedFiles = 1
    /\ report.FilesChecked = 2
    /\ Len(report.Issues) = 4
    /\ report.Errors = 1
    /\ report.Warnings = 3

(***************************************************************************)
(* The selection menu (menuModel, SelectOptionWithDisabled).  run holds    *)
(* the menuModel: the number of options, the disabled mask (empty for nil, *)
(* else one flag per option), the cursor selected (from 0), canceled, and  *)
(* quit once Update returned tea.Quit; key is the last key handled and     *)
(* result what SelectOptionWithDisabled then returns (-1 with the error    *)
(* "cancelled by user").  The menus start from every mask over 1 to        *)
(* MaxOptions options.                                                     *)
(***************************************************************************)
MaxOptions == 4

\* len(m.disabled) > 0 && m.disabled[i]
IsDisabled(m, i) == Len(m.disabled) > 0 /\ m.disabled[i + 1]

\* SelectOptionWithDisabled, lines 921-929: the first option that is not
\* disabled, or 0.
RECURSIVE InitialSelected(_, _, _)
InitialSelected(n, disabled, i) ==
    IF disabled = << >> \/ i >= n THEN 0
    ELSE IF ~disabled[i + 1] THEN i
    ELSE InitialSelected(n, disabled, i + 1)

\* SelectOptionWithDisabled, lines 931-938: the model the program starts.
NewMenu(n, disabled) ==
    [kind |-> "Menu", options |-> n, disabled |-> disabled,
     selected |-> InitialSelected(n, disabled, 0),
     canceled |-> FALSE, quit |-> FALSE, key |-> "none", result |-> 0]

\* Update, lines 811-820: "up", "k".
RECURSIVE MoveUp(_, _)
MoveUp(m, newSelected) ==
    IF newSelected < 0 THEN m
    ELSE IF Len(m.disabled) = 0 \/ ~m.disabled[newSelected + 1]
    THEN [m EXCEPT !.selected = newSelected]
    ELSE MoveUp(m, newSelected - 1)

\* "down" that moves to the next option whether or not it is disabled.
MoveDownNoSkip(m, newSelected) ==
    IF newSelected >= m.options THEN m ELSE [m EXCEPT !.selected = newSelected]

\* Update, lines 821-830: "down", "j".
RECURSIVE MoveDown(_, _)
MoveDown(m, newSelected) ==
    IF newSelected >= m.options THEN m
    ELSE IF Len(m.disabled) = 0 \/ ~m.disabled[newSelected + 1]
    THEN [m EXCEPT !.selected = newSelected]
    ELSE MoveDown(m, newSelected + 1)

\* Update, lines 803-839, and what SelectOptionWithDisabled returns once the
\* program has quit (lines 942-952).
Update(m, key) ==
    LET handled == [m EXCEPT !.key = key]
    IN  IF key \in {"ctrl+c", "esc"}
        THEN [handled EXCEPT !.canceled = TRUE, !.quit = TRUE, !.result = -1]
        ELSE IF key = "up" THEN MoveUp(handled, m.selected - 1)
        ELSE IF key = "down" THEN MoveDown(handled, m.selected + 1)
        ELSE IF key = "enter"
        THEN IF Len(m.disabled) = 0 \/ ~m.disabled[m.selected + 1]
             THEN [handled EXCEPT !.quit = TRUE, !.result = m.selected]
             ELSE handled
        ELSE handled

MenuKeys == {"ctrl+c", "esc", "up", "down", "enter"}

MenuInit ==
    /\ \E n \in 1..MaxOptions :
       \E disabled \in {<< >>} \cup [1..n -> BOOLEAN] :
          run = NewMenu(n, disabled)
    /\ files = [p \in FilePaths |->
                    IF p = ClaudeConfigPath THEN UserContent ELSE NoFile]
    /\ dirs = Ancestors(Home) \cup Ancestors(Cwd)
    /\ doc = Save(EmptyState)
    /\ release = 1
    /\ mode = "user"
    /\ st = EmptyState
    /\ pc = "menu"
    /\ queue = << >>
    /\ catQueue = << >>
    /\ plan = NoPlan
    /\ report = NoReport
    /\ fixQueue = << >>
    /\ clock = 0
    /\ env = 0
    /\ before = NoStatus

\* The program hands a key to Update until Update returns tea.Quit.
MenuKey(key) ==
    /\ pc = "menu"
    /\ run' = Update(run, key)
    /\ pc' = IF run'.quit THEN "done" ELSE "menu"
    /\ UNCHANGED <<files, dirs, doc, release, mode, st, queue, catQueue, plan,
                   report, fixQueue, clock, env, before>>

MenuNext == \E key \in MenuKeys : MenuKey(key)

MenuSpec == MenuInit /\ [][MenuNext]_vars

SomeEnabled(m) == \E i \in 0..(m.options - 1) : ~IsDisabled(m, i)

\* C39, as stated: the cursor never rests on a disabled option, for every
\* disabled mask.
C39_CursorNeverOnDisabled ==
    run.kind = "Menu" => ~IsDisabled(run, run.selected)

\* C39: after any sequence of up, down and enter keys the cursor is within
\* 0..len(options)-1; it is on an option that is not disabled whenever the
\* mask leaves one enabled, and stays at 0 when every option is disabled;
\* enter never accepts a disabled option, so that a menu with every option
\* disabled ends by Esc or Ctrl+C only; Esc and Ctrl+C always end the menu as
\* cancelled.
C39_MenuCursor ==
    run.kind = "Menu" =>
        /\ run.selected \in 0..(run.options - 1)
        /\ SomeEnabled(run) => ~IsDisabled(run, run.selected)
        /\ ~SomeEnabled(run) => run.selected = 0
        /\ (run.quit /\ ~run.canceled) =>
              /\ ~IsDisabled(run, run.selected)
              /\ run.result = run.selected
              /\ run.key = "enter"
        /\ run.key \in {"ctrl+c", "esc"} =>
              (run.quit /\ run.canceled /\ run.result = -1)
        /\ run.quit <=> pc = "done"

\* The cursor has moved down over a disabled option and the option it reached
\* has been accepted.
C39_Witness ==
    /\ run.kind = "Menu"
    /\ pc = "done"
    /\ ~run.canceled
    /\ run.result > 1
    /\ \E i \in 1..(run.result - 1) : IsDisabled(run, i)
    /\ ~IsDisabled(run, 0)

====
